---- MODULE Spec2Model ----
(***************************************************************************)
(* Pharaohs backend: the request handlers of the scouting REST API as a    *)
(* state machine over the relational store.                                *)
(*                                                                         *)
(* State: the tables the handlers read and write (rows are records, a      *)
(* table is the set of its rows, every row carries its AUTO_INCREMENT id   *)
(* so that two rows with the same key columns stay two rows), the set of   *)
(* bearer tokens signed so far, and the HTTP response of the last request. *)
(* One action per handler; each action is the whole request: the route's   *)
(* middleware chain, the handler's queries in source order, the            *)
(* notification it triggers and the response it sends.                     *)
(*                                                                         *)
(* The store is taken to answer every query, with two exceptions taken     *)
(* from the source: the notification insert may fail (createNotification   *)
(* catches it), and an insert whose foreign key has no parent row throws.  *)
(***************************************************************************)
EXTENDS Integers, Sequences, FiniteSets, TLC

VARIABLES
    users,          \* table users: [id, name, email, password, role, status]
    issued,         \* payloads of the tokens signed by login / register
    playerProfiles, \* table player_profiles: [user_id, position, date_of_birth,
                    \*   profile_image, public_id, rating]
    scoutProfiles,  \* table scout_profiles: [user_id, organization, profile_image,
                    \*   public_id]
    tryouts,        \* table tryouts: [id, scout_id, name, location]; location as pieces
    invitations,    \* table invitations: [id, tryout_id, player_id, status]
    videos,         \* table videos: [id, player_id]
    likes,          \* table likes: [id, user_id, video_id]
    comments,       \* table comments: [id, user_id, video_id]
    notifications,  \* table notifications: [id, user_id, message, is_read]
    playerStats,    \* table player_stats: [player_id, matches_played, goals, ...]
    shortlists,     \* table shortlists: [id, scout_id, player_id]
    systemLogs,     \* table system_logs: [id, admin_id, action, entity_type, entity_id]
    cloud,          \* the storage provider: [objects, destroyed, next, configured]
    autoInc,        \* next AUTO_INCREMENT id of each table
    inflight,       \* the requests two clients send at the same time: for each,
                    \*   the handler, where it stands, what it read, its answer
    resp            \* the response to the last request

\* Groups of tables, for the UNCHANGED clauses of the handlers.
accountTables == <<users, issued, playerProfiles, scoutProfiles>>
tryoutTables == <<tryouts, invitations>>
mediaTables == <<videos, likes, comments>>
notificationTables == <<notifications, autoInc>>
otherTables == <<playerStats, shortlists, systemLogs, cloud>>

vars ==
    <<accountTables, tryoutTables, mediaTables, notificationTables, otherTables,
      inflight, resp>>

\* A request that changes no row.
unchangedDb ==
    UNCHANGED <<accountTables, tryoutTables, mediaTables, notificationTables,
                otherTables, inflight>>

(***************************************************************************)
(* Bounds of the model.                                                    *)
(***************************************************************************)
MaxInvitations == 2     \* invitation rows ever inserted in a run
MaxNotifications == 1   \* notification rows ever inserted in a run
MaxLikes == 2           \* like rows ever inserted in a run
MaxComments == 3        \* comment rows ever inserted in a run
MaxUsers == 3           \* user rows ever inserted in a run
MaxTryouts == 1         \* tryout rows scouts ever insert in a run
MaxLocations == 1       \* location templates ever inserted in a run
MaxShortlists == 2      \* shortlist rows ever inserted in a run
MaxStat == 3            \* largest value of a statistic in the rating box
MaxVideos == 2          \* video rows ever inserted in a run
MaxLogs == 2            \* system_logs rows ever inserted in a run

Roles == {"player", "scout", "admin"}
UserStatuses == {"active", "inactive", "suspended"}
InvitationStatuses == {"pending", "accepted", "declined"}

(***************************************************************************)
(* Bearer tokens and the middleware chain of a route.                      *)
(***************************************************************************)
NoUser == [id |-> 0, role |-> "none"]

\* An Authorization header: absent, a scheme without a token, a token that
\* jwt.verify rejects (bad signature or algorithm / expired), or a token
\* signed by this server, which decodes to its payload.
Bearer(p) == [kind |-> "signed", payload |-> p]

Headers ==
    { [kind |-> k, payload |-> NoUser] :
        k \in {"none", "schemeOnly", "garbage", "expired"} }
    \cup { Bearer(p) : p \in issued }

\* The callers of the handler specifications: every signed-in user and an
\* anonymous request.
Callers == { [kind |-> "none", payload |-> NoUser] } \cup { Bearer(p) : p \in issued }

\* jwt.verify(token, secret, verifyOptions): only a token this server signed
\* and that has not expired decodes.
jwtVerify(h) == h.kind = "signed" /\ h.payload \in issued

\* Mutant: a token that fails verification is let through without a user.
authMiddlewareLenient(h) ==
    IF h.kind \in {"none", "schemeOnly"}
    THEN [next |-> FALSE, status |-> 401, message |-> "No token", user |-> NoUser]
    ELSE [next |-> TRUE, status |-> 0, message |-> "",
          user |-> IF h.kind = "signed" THEN h.payload ELSE NoUser]

\* middlewares/auth.middleware.js
authMiddleware(h) ==
    IF h.kind \in {"none", "schemeOnly"}
    THEN [next |-> FALSE, status |-> 401, message |-> "No token", user |-> NoUser]
    ELSE IF jwtVerify(h)
         THEN [next |-> TRUE, status |-> 0, message |-> "", user |-> h.payload]
         ELSE [next |-> FALSE, status |-> 401, message |-> "Invalid token",
               user |-> NoUser]

\* middlewares/role.middleware.js: roles is the set the route was built with,
\* user is req.user (NoUser when no middleware has set it).
roleMiddleware(roles, user) ==
    IF user = NoUser \/ user.role \notin roles
    THEN [next |-> FALSE, status |-> 403, message |-> "Access denied"]
    ELSE [next |-> TRUE, status |-> 0, message |-> ""]

Auth == [mw |-> "auth", roles |-> {}]
Role(rs) == [mw |-> "role", roles |-> rs]

\* Express runs the middlewares of a route in the order they were registered;
\* one that answers without calling next() ends the request. The result
\* carries the middlewares evaluated (trace) and req.user at the end.
RECURSIVE runChain(_, _, _, _, _)
runChain(chain, i, h, user, trace) ==
    IF i > Len(chain)
    THEN [status |-> 0, message |-> "", user |-> user, trace |-> trace]
    ELSE LET m == chain[i]
             r == IF m.mw = "auth"
                  THEN authMiddleware(h)
                  ELSE roleMiddleware(m.roles, user) @@ [user |-> user]
             t == Append(trace, [mw |-> m.mw, next |-> r.next])
         IN  IF r.next
             THEN runChain(chain, i + 1, h, r.user, t)
             ELSE [status |-> r.status, message |-> r.message,
                   user |-> NoUser, trace |-> t]

enter(chain, h) == runChain(chain, 1, h, NoUser, << >>)

\* The response a middleware sent when it ended the request.
denied(op, g) == [op |-> op, status |-> g.status, message |-> g.message]

reply(op, status, message) == [op |-> op, status |-> status, message |-> message]

(***************************************************************************)
(* Routes: the middleware chain each handler is mounted behind.            *)
(***************************************************************************)
\* routes/admin.routes.js: router.use(auth); router.use(role('admin'))
AdminRoutes ==
    [ r \in { "GET /api/admin/users", "DELETE /api/admin/users/:id",
              "PUT /api/admin/users/:id/status",
              "POST /api/admin/users/:id/reset-password",
              "GET /api/admin/media", "DELETE /api/admin/media/:id",
              "PUT /api/admin/media/:id/status", "GET /api/admin/logs",
              "GET /api/admin/locations", "POST /api/admin/locations",
              "DELETE /api/admin/locations/:location" }
      |-> <<Auth, Role({"admin"})>> ]

\* routes/scout.routes.js: every gated route is (auth, role('scout'), handler)
ScoutRoutes ==
    [ r \in { "POST /api/scout/tryouts", "GET /api/scout/tryouts",
              "PUT /api/scout/tryouts/:tryoutId",
              "DELETE /api/scout/tryouts/:tryoutId", "POST /api/scout/invite",
              "DELETE /api/scout/invitations/:invitationId",
              "POST /api/scout/shortlist", "GET /api/scout/shortlist",
              "DELETE /api/scout/shortlist/:playerId", "GET /api/scout/search",
              "GET /api/scout/filter-options", "GET /api/scout/locations",
              "GET /api/scout/profile", "PUT /api/scout/profile",
              "DELETE /api/scout/profile/picture", "GET /api/scout/debug-players" }
      |-> <<Auth, Role({"scout"})>> ]

\* routes/player.routes.js
PlayerRoutes ==
    [ r \in { "PUT /api/player/profile", "POST /api/player/upload",
              "POST /api/player/videos/comment", "GET /api/player/invitations",
              "PUT /api/player/invitations/:id", "DELETE /api/player/videos/:id",
              "PUT /api/player/videos/:id", "GET /api/player/stats",
              "POST /api/player/performance-stats",
              "DELETE /api/player/profile/picture" }
      |-> <<Auth, Role({"player"})>> ]
    @@ [ r \in { "GET /api/player/profile", "GET /api/player/videos",
                 "POST /api/player/videos/like",
                 "DELETE /api/player/videos/like/:videoId",
                 "GET /api/player/videos/likes" }
         |-> <<Auth, Role({"player", "scout"})>> ]
    @@ [ r \in { "POST /api/player/invitations/send",
                 "GET /api/player/scout-invitations", "POST /api/player/tryouts",
                 "GET /api/player/tryouts" }
         |-> <<Auth, Role({"scout"})>> ]

\* Every route mounted behind the role middleware.
RoleGatedRoutes == AdminRoutes @@ ScoutRoutes @@ PlayerRoutes

scoutInviteRoute == RoleGatedRoutes["POST /api/scout/invite"]
scoutCancelInvitationRoute ==
    RoleGatedRoutes["DELETE /api/scout/invitations/:invitationId"]
playerSendInvitationRoute == RoleGatedRoutes["POST /api/player/invitations/send"]
playerUpdateInvitationRoute == RoleGatedRoutes["PUT /api/player/invitations/:id"]

(***************************************************************************)
(* Notification fan-out.                                                   *)
(***************************************************************************)
\* The store may refuse the insert; the model forces the refusal once
\* MaxNotifications rows have been inserted.
InsertOutcomes ==
    IF autoInc.notifications > MaxNotifications THEN {FALSE} ELSE {TRUE, FALSE}

\* controllers/notification.controller.js createNotification: the table after
\* the call; a failed insert is caught and leaves the table as it was.
createNotification(userId, message, ok) ==
    IF ok
    THEN notifications \cup
            {[id |-> autoInc.notifications, user_id |-> userId,
              message |-> message, is_read |-> FALSE]}
    ELSE notifications

notificationsNextId(ok) ==
    IF ok THEN autoInc.notifications + 1 ELSE autoInc.notifications

\* Mutant: createNotification without its catch, a failed insert throws.
createNotificationThrowsOnFailure(ok) == ~ok

\* Whether createNotification throws to the handler awaiting it: its catch
\* returns false instead.
createNotificationThrows(ok) == FALSE

\* The response of a handler that awaited createNotification inside its own
\* try: had the call thrown, the handler's catch would answer, the rows
\* written before staying written.
afterNotification(ok, success, caught) ==
    IF createNotificationThrows(ok) THEN caught ELSE success

(***************************************************************************)
(* Invitations.                                                            *)
(***************************************************************************)
userExists(id) == \E u \in users : u.id = id

\* Mutant: the ownership test dropped from the query.
ownedTryoutsOfAnyScout(tryoutId, scoutId) ==
    { t \in tryouts : t.id = tryoutId }

ownedTryouts(tryoutId, scoutId) ==
    { t \in tryouts : t.id = tryoutId /\ t.scout_id = scoutId }

existingInvitations(tryoutId, playerId) ==
    { i \in invitations : i.tryout_id = tryoutId /\ i.player_id = playerId }

\* scout.controller invitePlayer
invitePlayer(h, tryout_id, player_id) ==
    LET g == enter(scoutInviteRoute, h)
        scoutId == g.user.id
        \* users u JOIN tryouts t ON t.scout_id = u.id WHERE t.id = ? AND t.scout_id = ?
        scoutAndTryout ==
            { t \in ownedTryouts(tryout_id, scoutId) : userExists(t.scout_id) }
        existing == existingInvitations(tryout_id, player_id)
    IN  IF g.status # 0
        THEN resp' = denied("invitePlayer", g) /\ unchangedDb
        ELSE IF tryout_id = 0 \/ player_id = 0
        THEN resp' = reply("invitePlayer", 400, "Tryout and Player IDs are required")
             /\ unchangedDb
        ELSE IF scoutAndTryout = {}
        THEN resp' = reply("invitePlayer", 403, "You are not the owner of this tryout")
             /\ unchangedDb
        ELSE IF existing # {}
        THEN resp' = reply("invitePlayer", 409, "Player already invited to this tryout")
             /\ unchangedDb
        ELSE IF ~userExists(player_id)
        THEN \* the insert violates the foreign key and throws
             resp' = reply("invitePlayer", 500, "Invitation failed") /\ unchangedDb
        ELSE /\ autoInc.invitations <= MaxInvitations
             /\ \E ok \in InsertOutcomes :
                  /\ invitations' = invitations \cup
                        {[id |-> autoInc.invitations, tryout_id |-> tryout_id,
                          player_id |-> player_id, status |-> "pending"]}
                  /\ notifications' = createNotification(player_id, "invitation", ok)
                  /\ autoInc' = [autoInc EXCEPT !.invitations = @ + 1,
                                                !.notifications = notificationsNextId(ok)]
                  /\ resp' = afterNotification(ok,
                        reply("invitePlayer", 201, "Player invited successfully"),
                        reply("invitePlayer", 500, "Invitation failed"))
             /\ UNCHANGED <<otherTables, accountTables, tryouts, mediaTables, inflight>>

\* player.controller sendInvitation: the second invite operation; it answers a
\* duplicate with 400 and sends no notification.
sendInvitation(h, tryoutId, playerId) ==
    LET g == enter(playerSendInvitationRoute, h)
        scoutId == g.user.id
        tryout == ownedTryouts(tryoutId, scoutId)
        existing == existingInvitations(tryoutId, playerId)
    IN  IF g.status # 0
        THEN resp' = denied("sendInvitation", g) /\ unchangedDb
        ELSE IF tryoutId = 0 \/ playerId = 0
        THEN resp' = reply("sendInvitation", 400, "Tryout ID and Player ID are required")
             /\ unchangedDb
        ELSE IF tryout = {}
        THEN resp' = reply("sendInvitation", 403, "Unauthorized or tryout not found")
             /\ unchangedDb
        ELSE IF existing # {}
        THEN resp' = reply("sendInvitation", 400, "Invitation already sent")
             /\ unchangedDb
        ELSE IF ~userExists(playerId)
        THEN resp' = reply("sendInvitation", 500, "Failed to send invitation")
             /\ unchangedDb
        ELSE /\ autoInc.invitations <= MaxInvitations
             /\ invitations' = invitations \cup
                    {[id |-> autoInc.invitations, tryout_id |-> tryoutId,
                      player_id |-> playerId, status |-> "pending"]}
             /\ autoInc' = [autoInc EXCEPT !.invitations = @ + 1]
             /\ resp' = reply("sendInvitation", 200, "Invitation sent successfully")
             /\ UNCHANGED <<otherTables, accountTables, tryouts, mediaTables, notifications, inflight>>

\* The statuses updateInvitationStatus accepts from the request body.
validStatuses == {"accepted", "declined"}

\* invitations i JOIN tryouts t ON i.tryout_id = t.id JOIN users u ON t.scout_id = u.id
\* WHERE i.id = ? AND i.player_id = ?  (each row with its scout_id column)
invitationDetails(invitationId, playerId) ==
    { [inv |-> i, scout_id |-> t.scout_id] :
        <<i, t>> \in { p \in invitations \X tryouts :
                         /\ p[1].id = invitationId
                         /\ p[1].player_id = playerId
                         /\ p[1].tryout_id = p[2].id
                         /\ userExists(p[2].scout_id) } }

\* UPDATE invitations SET status = ? WHERE id = ?
setInvitationStatus(invitationId, status) ==
    { IF i.id = invitationId THEN [i EXCEPT !.status = status] ELSE i :
        i \in invitations }

\* player.controller updateInvitationStatus
updateInvitationStatus(h, id, status) ==
    LET g == enter(playerUpdateInvitationRoute, h)
        playerId == g.user.id
        details == invitationDetails(id, playerId)
    IN  IF g.status # 0
        THEN resp' = denied("updateInvitationStatus", g) /\ unchangedDb
        ELSE IF status \notin validStatuses
        THEN resp' = reply("updateInvitationStatus", 400,
                           "Status must be accepted or declined")
             /\ unchangedDb
        ELSE IF details = {}
        THEN resp' = reply("updateInvitationStatus", 404,
                           "Invitation not found or unauthorized")
             /\ unchangedDb
        ELSE \E d \in details : \E ok \in InsertOutcomes :
             /\ invitations' = setInvitationStatus(id, status)
             /\ notifications' = createNotification(d.scout_id, status, ok)
             /\ autoInc' = [autoInc EXCEPT !.notifications = notificationsNextId(ok)]
             /\ resp' = afterNotification(ok,
                   reply("updateInvitationStatus", 200, status),
                   reply("updateInvitationStatus", 500, "Could not update invitation"))
             /\ UNCHANGED <<otherTables, accountTables, tryouts, mediaTables, inflight>>

\* invitations i JOIN tryouts t ON i.tryout_id = t.id JOIN users u ON i.player_id = u.id
\* WHERE i.id = ? AND t.scout_id = ?
scoutInvitation(invitationId, scoutId) ==
    { i \in invitations :
        /\ i.id = invitationId
        /\ \E t \in tryouts : t.id = i.tryout_id /\ t.scout_id = scoutId
        /\ userExists(i.player_id) }

\* Mutant: the status check dropped.
cancellableInAnyStatus(invitation) == TRUE

\* The status check that lets cancelInvitation delete.
cancellable(invitation) == invitation.status = "pending"

\* scout.controller cancelInvitation
cancelInvitation(h, invitationId) ==
    LET g == enter(scoutCancelInvitationRoute, h)
        scoutId == g.user.id
        invitation == scoutInvitation(invitationId, scoutId)
    IN  IF g.status # 0
        THEN resp' = denied("cancelInvitation", g) /\ unchangedDb
        ELSE IF invitation = {}
        THEN resp' = reply("cancelInvitation", 404,
                           "Invitation not found or unauthorized")
             /\ unchangedDb
        ELSE \E i \in invitation :
             IF ~cancellable(i)
             THEN resp' = reply("cancelInvitation", 400, "Cannot cancel an invitation")
                  /\ unchangedDb
             ELSE \E ok \in InsertOutcomes :
                  /\ invitations' = { j \in invitations : j.id # invitationId }
                  /\ notifications' = createNotification(i.player_id, "canceled", ok)
                  /\ autoInc' = [autoInc EXCEPT
                                    !.notifications = notificationsNextId(ok)]
                  /\ resp' = afterNotification(ok,
                        reply("cancelInvitation", 200,
                              "Invitation canceled successfully"),
                        reply("cancelInvitation", 500, "Error canceling invitation"))
                  /\ UNCHANGED <<otherTables, accountTables, tryouts, mediaTables, inflight>>

(***************************************************************************)
(* Fixtures: rows every specification below starts from. Each is a state   *)
(* the handlers produce: the users by register, their tokens by login, the *)
(* tryouts by createTryout.                                                *)
(***************************************************************************)
bcryptHash(password) == <<"bcrypt", password>>

bcryptCompare(password, hash) == hash = bcryptHash(password)

SeedUser(id, role) ==
    [id |-> id, name |-> "n", email |-> id, password |-> bcryptHash(id),
     role |-> role, status |-> "active"]

SeedUsers ==
    { SeedUser(1, "scout"), SeedUser(2, "scout"),
      SeedUser(3, "player"), SeedUser(4, "player") }

TokenOf(u) == [id |-> u.id, role |-> u.role]

SeedTryouts ==
    { [id |-> 1, scout_id |-> 1, name |-> "Trial", location |-> <<"Cairo">>] }

NoResponse == [op |-> "none", status |-> 0, message |-> ""]

\* The two clients whose requests may overlap, and a client that has sent
\* nothing yet. A handler that runs alone is one step and never uses them.
Clients == {"a", "b"}
NotSent == [op |-> "none", pc |-> "idle"]
NoRequests == [c \in Clients |-> NotSent]

\* A player_profiles row as an INSERT that names no column leaves it: every
\* column NULL, the rating no number at all.
NoRating == [num |-> 0, den |-> 0]
NoProfile ==
    [user_id |-> 0, position |-> "", date_of_birth |-> "", profile_image |-> << >>,
     public_id |-> [folder |-> "", player |-> 0, n |-> 0], rating |-> NoRating]

\* The storage provider before any upload: no object stored, no destroy
\* request received, the credentials present in the environment.
NoObjects == [objects |-> {}, destroyed |-> {}, next |-> 1, configured |-> TRUE]

FirstIds ==
    [users |-> 5, tryouts |-> 2, invitations |-> 1, videos |-> 1, likes |-> 1,
     comments |-> 1, notifications |-> 1, shortlists |-> 1, systemLogs |-> 1,
     playerStats |-> 1]

(***************************************************************************)
(* Invitations specification: scout 1 with one tryout, scout 2 with none,  *)
(* players 3 and 4, the four invitation handlers.                          *)
(***************************************************************************)
TryoutIdInputs == {0} \cup { t.id : t \in SeedTryouts }
PlayerIdInputs == {0, 3, 4}
InvitationIdInputs == 1 .. MaxInvitations
StatusInputs == validStatuses \cup {"pending"}

InitInvitations ==
    /\ users = SeedUsers
    /\ issued = { TokenOf(u) : u \in SeedUsers }
    /\ playerProfiles = {}
    /\ scoutProfiles = {}
    /\ tryouts = SeedTryouts
    /\ invitations = {}
    /\ videos = {}
    /\ likes = {}
    /\ comments = {}
    /\ notifications = {}
    /\ autoInc = FirstIds
    /\ playerStats = {}
    /\ shortlists = {}
    /\ systemLogs = {}
    /\ cloud = NoObjects
    /\ inflight = NoRequests
    /\ resp = NoResponse

NextInvitations ==
    \/ \E h \in Callers, t \in TryoutIdInputs, p \in PlayerIdInputs :
          invitePlayer(h, t, p)
    \/ \E h \in Callers, t \in TryoutIdInputs, p \in PlayerIdInputs :
          sendInvitation(h, t, p)
    \/ \E h \in Callers, i \in InvitationIdInputs, s \in StatusInputs :
          updateInvitationStatus(h, i, s)
    \/ \E h \in Callers, i \in InvitationIdInputs :
          cancelInvitation(h, i)

SpecInvitations == InitInvitations /\ [][NextInvitations]_vars

(***************************************************************************)
(* Likes.                                                                  *)
(***************************************************************************)
playerLikeRoute == RoleGatedRoutes["POST /api/player/videos/like"]
playerUnlikeRoute == RoleGatedRoutes["DELETE /api/player/videos/like/:videoId"]

videoExists(videoId) == { v \in videos : v.id = videoId }

\* Mutant: the owner is notified of their own action too.
notifiesOwnerAlways(ownerId, actorId) == TRUE

\* "Send notification to video owner if it's not the same user"
notifiesOwner(ownerId, actorId) == ownerId # actorId

\* Mutant: the lookup finds nothing.
existingLikeNeverFound(userId, videoId) == {}

\* SELECT id FROM likes WHERE user_id = ? AND video_id = ?
existingLike(userId, videoId) ==
    { l \in likes : l.user_id = userId /\ l.video_id = videoId }

\* SELECT COUNT(*) as count FROM likes WHERE video_id = ?
likeCount(rows, videoId) == Cardinality({ l \in rows : l.video_id = videoId })

\* player.controller likeVideo
likeVideo(h, videoId) ==
    LET g == enter(playerLikeRoute, h)
        userId == g.user.id
        \* videos v JOIN users u ON u.id = ? WHERE v.id = ?
        videoResult == { v \in videoExists(videoId) : userExists(userId) }
    IN  IF g.status # 0
        THEN resp' = denied("likeVideo", g) /\ unchangedDb
        ELSE IF videoId = 0
        THEN resp' = reply("likeVideo", 400, "Video ID is required") /\ unchangedDb
        ELSE IF videoExists(videoId) = {}
        THEN resp' = reply("likeVideo", 404, "Video not found") /\ unchangedDb
        ELSE IF existingLike(userId, videoId) # {}
        THEN resp' = [op |-> "likeVideo", status |-> 200,
                      message |-> "Already liked this video", alreadyLiked |-> TRUE]
             /\ unchangedDb
        ELSE IF ~userExists(userId)
        THEN resp' = reply("likeVideo", 500, "Failed to like video") /\ unchangedDb
        ELSE /\ autoInc.likes <= MaxLikes
             /\ \E v \in videoResult :
                \E ok \in (IF notifiesOwner(v.player_id, userId) THEN InsertOutcomes
                                                                 ELSE {FALSE}) :
                  LET added == likes \cup {[id |-> autoInc.likes, user_id |-> userId,
                                            video_id |-> videoId]}
                  IN  /\ likes' = added
                      /\ notifications' = createNotification(v.player_id, "like", ok)
                      /\ autoInc' = [autoInc EXCEPT
                                        !.likes = @ + 1,
                                        !.notifications = notificationsNextId(ok)]
                      /\ resp' =
                            LET liked == [op |-> "likeVideo", status |-> 201,
                                          message |-> "Liked video",
                                          likeCount |-> likeCount(added, videoId)]
                            IN  IF notifiesOwner(v.player_id, userId)
                                THEN afterNotification(ok, liked,
                                        reply("likeVideo", 500, "Failed to like video"))
                                ELSE liked
             /\ UNCHANGED <<otherTables, accountTables, tryoutTables, videos, comments, inflight>>

\* player.controller unlikeVideo
unlikeVideo(h, videoId) ==
    LET g == enter(playerUnlikeRoute, h)
        userId == g.user.id
        left == { l \in likes : ~(l.user_id = userId /\ l.video_id = videoId) }
    IN  IF g.status # 0
        THEN resp' = denied("unlikeVideo", g) /\ unchangedDb
        ELSE IF videoId = 0
        THEN resp' = reply("unlikeVideo", 400, "Video ID is required") /\ unchangedDb
        ELSE IF videoExists(videoId) = {}
        THEN resp' = reply("unlikeVideo", 404, "Video not found") /\ unchangedDb
        ELSE IF existingLike(userId, videoId) = {}
        THEN resp' = [op |-> "unlikeVideo", status |-> 200, message |-> "Not liked",
                      alreadyUnliked |-> TRUE]
             /\ unchangedDb
        ELSE /\ likes' = left
             /\ resp' = [op |-> "unlikeVideo", status |-> 200,
                         message |-> "Unliked video",
                         likeCount |-> likeCount(left, videoId)]
             /\ UNCHANGED <<otherTables, accountTables, tryoutTables, videos, comments,
                            notificationTables, inflight>>

(***************************************************************************)
(* Likes specification: scout 1 and players 3 and 4, one video of each     *)
(* player, the like and unlike handlers.                                   *)
(***************************************************************************)
LikeUsers == { u \in SeedUsers : u.id \in {1, 3, 4} }

SeedVideos == { [id |-> 1, player_id |-> 3], [id |-> 2, player_id |-> 4] }

\* 0 is a request without a video id, 9 the id of no video.
VideoIdInputs == {0, 9} \cup { v.id : v \in SeedVideos }

InitLikes ==
    /\ users = LikeUsers
    /\ issued = { TokenOf(u) : u \in LikeUsers }
    /\ playerProfiles = {}
    /\ scoutProfiles = {}
    /\ tryouts = {}
    /\ invitations = {}
    /\ videos = SeedVideos
    /\ likes = {}
    /\ comments = {}
    /\ notifications = {}
    /\ autoInc = [FirstIds EXCEPT !.videos = 3]
    /\ playerStats = {}
    /\ shortlists = {}
    /\ systemLogs = {}
    /\ cloud = NoObjects
    /\ inflight = NoRequests
    /\ resp = NoResponse

NextLikes ==
    \/ \E h \in Callers, v \in VideoIdInputs : likeVideo(h, v)
    \/ \E h \in Callers, v \in VideoIdInputs : unlikeVideo(h, v)

SpecLikes == InitLikes /\ [][NextLikes]_vars

(***************************************************************************)
(* Comments.                                                               *)
(***************************************************************************)
playerAddCommentRoute == RoleGatedRoutes["POST /api/player/videos/comment"]
playerDeleteCommentRoute == <<Auth>>

\* String.prototype.trim on a string given as the sequence of its characters.
RECURSIVE trimStart(_)
trimStart(str) ==
    IF str # << >> /\ Head(str) = " " THEN trimStart(Tail(str)) ELSE str

RECURSIVE trimEnd(_)
trimEnd(str) ==
    IF str # << >> /\ str[Len(str)] = " "
    THEN trimEnd(SubSeq(str, 1, Len(str) - 1))
    ELSE str

trim(str) == trimEnd(trimStart(str))

\* player.controller addComment
addComment(h, videoId, content) ==
    LET g == enter(playerAddCommentRoute, h)
        \* videos v JOIN users u ON u.id = ? WHERE v.id = ?
        videoResult == { v \in videoExists(videoId) : userExists(g.user.id) }
        added == comments \cup
                    {[id |-> autoInc.comments, user_id |-> g.user.id,
                      video_id |-> videoId, comment |-> trim(content)]}
    IN  IF g.status # 0
        THEN resp' = denied("addComment", g) /\ unchangedDb
        ELSE IF g.user.role # "player"
        THEN resp' = reply("addComment", 403, "Only players can post comments.")
             /\ unchangedDb
        ELSE IF videoId = 0 \/ trim(content) = << >>
        THEN resp' = reply("addComment", 400,
                           "Video ID and comment content are required")
             /\ unchangedDb
        ELSE IF videoResult = {}
        THEN \* no such video (or user): the insert violates its foreign key
             resp' = reply("addComment", 500, "Failed to add comment") /\ unchangedDb
        ELSE /\ autoInc.comments <= MaxComments
             /\ \E v \in videoResult :
                \E ok \in (IF notifiesOwner(v.player_id, g.user.id) THEN InsertOutcomes
                                                      ELSE {FALSE}) :
                  /\ comments' = added
                  /\ notifications' = createNotification(v.player_id, "comment", ok)
                  /\ autoInc' = [autoInc EXCEPT
                                    !.comments = @ + 1,
                                    !.notifications = notificationsNextId(ok)]
                  /\ resp' =
                        IF notifiesOwner(v.player_id, g.user.id)
                        THEN afterNotification(ok,
                                reply("addComment", 201, "Comment added"),
                                reply("addComment", 500, "Failed to add comment"))
                        ELSE reply("addComment", 201, "Comment added")
             /\ UNCHANGED <<otherTables, accountTables, tryoutTables, videos, likes, inflight>>

\* Mutant: every scout passes for an admin.
mayDeleteCommentAsStaff(comment, user) ==
    comment.user_id = user.id \/ user.role \in {"admin", "scout"}

\* isCommentOwner || isAdmin
mayDeleteComment(comment, user) ==
    comment.user_id = user.id \/ user.role = "admin"

\* player.controller deleteComment
deleteComment(h, commentId) ==
    LET g == enter(playerDeleteCommentRoute, h)
        comment == { c \in comments : c.id = commentId }
    IN  IF g.status # 0
        THEN resp' = denied("deleteComment", g) /\ unchangedDb
        ELSE IF comment = {}
        THEN resp' = reply("deleteComment", 404, "Comment not found or already deleted")
             /\ unchangedDb
        ELSE \E c \in comment :
             IF ~mayDeleteComment(c, g.user)
             THEN resp' = reply("deleteComment", 403,
                                "You can only delete your own comments")
                  /\ unchangedDb
             ELSE /\ comments' = { d \in comments : d.id # commentId }
                  /\ resp' = reply("deleteComment", 200, "Comment deleted successfully")
                  /\ UNCHANGED <<otherTables, accountTables, tryoutTables, videos, likes,
                                 notificationTables, inflight>>

(***************************************************************************)
(* Comments specification: scout 1, players 3 and 4, admin 5, one video of *)
(* player 3.                                                               *)
(***************************************************************************)
CommentUsers == { u \in SeedUsers : u.id \in {1, 3, 4} } \cup { SeedUser(5, "admin") }

CommentVideos == { v \in SeedVideos : v.id = 1 }

CommentVideoIdInputs == {0, 1, 9}

ContentInputs == { << >>, <<" ">>, <<"a">>, <<" ", "a", " ">> }

\* One id past the rows a run inserts is the id of no comment.
CommentIdInputs == 1 .. MaxComments + 1

InitComments ==
    /\ users = CommentUsers
    /\ issued = { TokenOf(u) : u \in CommentUsers }
    /\ playerProfiles = {}
    /\ scoutProfiles = {}
    /\ tryouts = {}
    /\ invitations = {}
    /\ videos = CommentVideos
    /\ likes = {}
    /\ comments = {}
    /\ notifications = {}
    /\ autoInc = [FirstIds EXCEPT !.users = 6, !.videos = 2]
    /\ playerStats = {}
    /\ shortlists = {}
    /\ systemLogs = {}
    /\ cloud = NoObjects
    /\ inflight = NoRequests
    /\ resp = NoResponse

NextComments ==
    \/ \E h \in Callers, v \in CommentVideoIdInputs, c \in ContentInputs :
          addComment(h, v, c)
    \/ \E h \in Callers, c \in CommentIdInputs : deleteComment(h, c)

SpecComments == InitComments /\ [][NextComments]_vars

(***************************************************************************)
(* Accounts: register and login.                                           *)
(***************************************************************************)
\* The status column is not in the INSERT of register: the row gets the
\* column's default.
defaultStatus == "active"

\* Mutant: the lookup finds nothing.
usersByEmailNeverFound(email) == {}

\* SELECT ... FROM users WHERE email = ?
usersByEmail(email) == { u \in users : u.email = email }

\* A request field that is absent or empty is falsy.
missing(field) == field = ""

\* What the store does with INSERT INTO users (... role) for a role the
\* handler never looked at: the schema is not part of the sources, so a role
\* outside the three is either stored as sent or the insert throws.
roleStored(role) == IF role \in Roles THEN {TRUE} ELSE {TRUE, FALSE}

\* auth.controller register; body is the request body.
register(body) ==
    LET userId == autoInc.users
        user == [id |-> userId, email |-> body.email, role |-> body.role]
        \* jwt.sign(user, secret, {expiresIn}) signs HS256, the default
        token == user
        profile == IF body.role = "player" /\ ~missing(body.date_of_birth)
                   THEN {[NoProfile EXCEPT !.user_id = userId,
                                               !.date_of_birth = body.date_of_birth]}
                   ELSE {}
    IN  IF \/ missing(body.name) \/ missing(body.email) \/ missing(body.password)
           \/ missing(body.role) \/ missing(body.confirmPassword)
        THEN resp' = reply("register", 400, "All fields are required") /\ unchangedDb
        ELSE IF body.password # body.confirmPassword
        THEN resp' = reply("register", 400, "Passwords do not match") /\ unchangedDb
        ELSE IF usersByEmail(body.email) # {}
        THEN resp' = reply("register", 409, "Email already exists") /\ unchangedDb
        ELSE \E inserted \in roleStored(body.role) :
             IF ~inserted
             THEN resp' = reply("register", 500, "Server error") /\ unchangedDb
             ELSE
             /\ autoInc.users <= MaxUsers
             /\ users' = users \cup
                    {[id |-> userId, name |-> body.name, email |-> body.email,
                      password |-> bcryptHash(body.password), role |-> body.role,
                      status |-> defaultStatus]}
             /\ playerProfiles' = playerProfiles \cup profile
             /\ issued' = issued \cup {token}
             /\ autoInc' = [autoInc EXCEPT !.users = @ + 1]
             /\ resp' = [op |-> "register", status |-> 201, message |-> "",
                         token |-> token, user |-> user]
             /\ UNCHANGED <<otherTables, scoutProfiles, tryoutTables, mediaTables,
                            notifications, inflight>>

\* Mutant: the status check dropped.
accountIsActiveAlways(user) == TRUE

\* user.status !== 'active' answers 403
accountIsActive(user) == user.status = "active"

\* auth.controller login
login(email, password) ==
    IF usersByEmail(email) = {}
    THEN resp' = reply("login", 401, "Invalid credentials") /\ unchangedDb
    ELSE \E user \in usersByEmail(email) :
         LET token == [id |-> user.id, role |-> user.role]
         IN  IF ~accountIsActive(user)
             THEN resp' = reply("login", 403, "Account is not active") /\ unchangedDb
             ELSE IF ~bcryptCompare(password, user.password)
             THEN resp' = reply("login", 401, "Invalid credentials") /\ unchangedDb
             ELSE /\ issued' = issued \cup {token}
                  /\ resp' = [op |-> "login", status |-> 200, message |-> "",
                              token |-> token,
                              user |-> [id |-> user.id, email |-> user.email,
                                        role |-> user.role]]
                  /\ UNCHANGED <<otherTables, users, playerProfiles, scoutProfiles, tryoutTables, mediaTables,
                                 notificationTables, inflight>>

(***************************************************************************)
(* Accounts specification: one account exists, with any status an admin    *)
(* can have given it (admin.controller updateUserStatus writes the column); *)
(* register and login run against it.                                      *)
(***************************************************************************)
FirstAccount(status) ==
    [id |-> 1, name |-> "n", email |-> "a", password |-> bcryptHash("p"),
     role |-> "scout", status |-> status]

\* Request bodies of register: the complete ones, matching and mismatching
\* confirmation included, and one body per required field left out.
CompleteBodies ==
    [name : {"n"}, email : {"a", "b", "c"}, password : {"p"},
     confirmPassword : {"p", "q"}, role : {"player", "admin"},
     date_of_birth : {"", "2001"}]

RegisterBodies ==
    CompleteBodies
    \cup { [b EXCEPT ![f] = ""] :
             b \in { c \in CompleteBodies :
                       /\ c.email = "a" /\ c.confirmPassword = "p"
                       /\ c.role = "player" /\ c.date_of_birth = "2001" },
             f \in {"name", "email", "password", "role", "confirmPassword"} }

EmailInputs == {"a", "b", "z"}
PasswordInputs == {"p", "q"}

InitAccounts ==
    /\ \E s \in UserStatuses : users = {FirstAccount(s)}
    /\ issued = {}
    /\ playerProfiles = {}
    /\ scoutProfiles = {}
    /\ tryouts = {}
    /\ invitations = {}
    /\ videos = {}
    /\ likes = {}
    /\ comments = {}
    /\ notifications = {}
    /\ autoInc = [FirstIds EXCEPT !.users = 2, !.tryouts = 1]
    /\ playerStats = {}
    /\ shortlists = {}
    /\ systemLogs = {}
    /\ cloud = NoObjects
    /\ inflight = NoRequests
    /\ resp = NoResponse

NextAccounts ==
    \/ \E body \in RegisterBodies : register(body)
    \/ \E e \in EmailInputs, p \in PasswordInputs : login(e, p)

SpecAccounts == InitAccounts /\ [][NextAccounts]_vars

(***************************************************************************)
(* Gate specification: requests with every kind of Authorization header to *)
(* every role-gated route; the handler behind the chain is entered or not. *)
(***************************************************************************)
\* Express dispatches the request to the route: the chain runs, and the
\* handler is entered only if every middleware called next().
request(route, h) ==
    LET g == enter(RoleGatedRoutes[route], h)
    IN  /\ resp' = [op |-> "request", route |-> route, header |-> h,
                    status |-> g.status, message |-> g.message,
                    handler |-> g.status = 0, user |-> g.user, trace |-> g.trace]
        /\ unchangedDb

GateUsers == SeedUsers \cup { SeedUser(5, "admin") }

InitGate ==
    /\ users = GateUsers
    /\ issued = { TokenOf(u) : u \in GateUsers }
    /\ playerProfiles = {}
    /\ scoutProfiles = {}
    /\ tryouts = {}
    /\ invitations = {}
    /\ videos = {}
    /\ likes = {}
    /\ comments = {}
    /\ notifications = {}
    /\ autoInc = [FirstIds EXCEPT !.users = 6, !.tryouts = 1]
    /\ playerStats = {}
    /\ shortlists = {}
    /\ systemLogs = {}
    /\ cloud = NoObjects
    /\ inflight = NoRequests
    /\ resp = NoResponse

NextGate == \E route \in DOMAIN RoleGatedRoutes, h \in Headers : request(route, h)

SpecGate == InitGate /\ [][NextGate]_vars

(***************************************************************************)
(* Admin log: controllers/admin.controller.js logAdminAction.              *)
(***************************************************************************)
\* The INSERT INTO system_logs either succeeds or throws; once MaxLogs rows
\* were written it throws.
LogOutcomes ==
    IF autoInc.systemLogs > MaxLogs THEN {FALSE} ELSE {TRUE, FALSE}

\* logAdminAction: the table after the call; the catch turns a failed insert
\* into a false return value that no caller reads.
logAdminAction(userId, action, entityType, entityId, ok) ==
    IF ok
    THEN systemLogs \cup
            {[id |-> autoInc.systemLogs, user_id |-> userId, action |-> action,
              entity_type |-> entityType, entity_id |-> entityId]}
    ELSE systemLogs

systemLogsNextId(ok) ==
    IF ok THEN autoInc.systemLogs + 1 ELSE autoInc.systemLogs

\* What the admin logged before: the status changes of user 4.
EarlierLogs ==
    { [id |-> i, user_id |-> 5, action |-> "UPDATE", entity_type |-> "user",
       entity_id |-> 4] : i \in 1 .. MaxLogs - 1 }

\* Mutant: logAdminAction without its catch, a failed insert throws.
logAdminActionThrowsOnFailure(ok) == ~ok

\* What logAdminAction throws to the handler that awaits it: nothing.
logAdminActionThrows(ok) == FALSE

\* The handler's response after the awaited logAdminAction: its success
\* response, or the response of its catch had the call thrown.
afterLog(ok, success, caught) ==
    IF logAdminActionThrows(ok) THEN caught ELSE success

(***************************************************************************)
(* Media: upload to the storage provider, deletion by owner and by admin.  *)
(***************************************************************************)
playerUploadRoute == RoleGatedRoutes["POST /api/player/upload"]
playerDeleteVideoRoute == RoleGatedRoutes["DELETE /api/player/videos/:id"]
adminDeleteVideoRoute == RoleGatedRoutes["DELETE /api/admin/media/:id"]

\* services/cloudinary.service.js: the names the module exports.
cloudinaryExports == {"uploadBuffer", "deleteResource", "getUrl", "cloudinary"}

\* A request without a file part; a file is [mimetype, size], the mimetype
\* split at its slash and the size in megabytes.
NoFile == [mimetype |-> << >>, size |-> 0]
NoPublicId == [folder |-> "", player |-> 0, n |-> 0]

\* middleware/upload.middleware.js
allowedTypes ==
    { <<"video", "mp4">>, <<"video", "webm">>, <<"image", "jpeg">>,
      <<"image", "png">>, <<"image", "jpg">> }
fileSizeLimit == 20

\* String.prototype.includes over a message kept as its sequence of pieces.
includes(message, piece) == \E i \in 1 .. Len(message) : message[i] = piece

\* What cloudinary.uploader.upload can throw, as message pieces.
ProviderErrors ==
    { <<"Request Timeout">>, <<"getaddrinfo ENOTFOUND api.", "cloudinary", ".com">> }

\* The provider after it stored an object under publicId.
stored(publicId) ==
    [cloud EXCEPT !.objects = @ \cup {publicId}, !.next = @ + 1]

\* Mutant: a failed upload is reported as a success.
uploadBufferSwallowingErrors(file, publicId, outcome) ==
    [error |-> << >>, public_id |-> publicId,
     secure_url |-> <<"https://res.cloudinary.com/", publicId>>,
     provider |-> IF file.size # 0 /\ outcome = << >>
                  THEN stored(publicId)
                  ELSE [cloud EXCEPT !.next = @ + 1]]

\* uploadBuffer: the provider stores the object under the requested
\* public_id and answers with its URL, or the call throws and the provider
\* keeps nothing. outcome is the message thrown, << >> when nothing is.
uploadBuffer(file, publicId, outcome) ==
    IF file.size = 0
    THEN [error |-> <<"Cloudinary upload failed: ", "Empty file buffer received">>,
          provider |-> cloud]
    ELSE IF outcome = << >>
    THEN [error |-> << >>, public_id |-> publicId,
          secure_url |-> <<"https://res.cloudinary.com/", publicId>>,
          provider |-> stored(publicId)]
    ELSE [error |-> <<"Cloudinary upload failed: ">> \o outcome,
          provider |-> cloud]

UploadOutcomes == {<< >>} \cup ProviderErrors

\* player.controller uploadMedia behind its route: auth, role('player'),
\* upload.single('file') with handleUploadErrors, then the handler.
uploadMedia(h, file) ==
    LET g == enter(playerUploadRoute, h)
        playerId == g.user.id
        type == IF file.mimetype[1] = "image" THEN "image" ELSE "video"
        publicId == [folder |-> type, player |-> playerId, n |-> cloud.next]
    IN  IF g.status # 0
        THEN resp' = denied("uploadMedia", g) /\ unchangedDb
        ELSE IF file # NoFile /\ file.mimetype \notin allowedTypes
        THEN resp' = reply("uploadMedia", 415, "Invalid file type") /\ unchangedDb
        ELSE IF file # NoFile /\ file.size > fileSizeLimit
        THEN resp' = reply("uploadMedia", 413, "File size too large") /\ unchangedDb
        ELSE IF file = NoFile
        THEN resp' = reply("uploadMedia", 400, "File is required") /\ unchangedDb
        ELSE IF ~cloud.configured
        THEN resp' = reply("uploadMedia", 500, "Server configuration error")
             /\ unchangedDb
        ELSE \E outcome \in UploadOutcomes :
             LET cloudinaryResult == uploadBuffer(file, publicId, outcome)
             IN  IF cloudinaryResult.error # << >>
                 THEN /\ resp' =
                           IF includes(cloudinaryResult.error, "payload too large")
                           THEN reply("uploadMedia", 413, "File size too large")
                           ELSE IF includes(cloudinaryResult.error, "cloudinary")
                           THEN reply("uploadMedia", 500,
                                      "Error uploading to cloud storage")
                           ELSE reply("uploadMedia", 500,
                                      "Server error during upload")
                      /\ unchangedDb
                 ELSE /\ cloud.next <= MaxVideos
                      /\ cloud' = cloudinaryResult.provider
                      /\ videos' = videos \cup
                            {[id |-> autoInc.videos, player_id |-> playerId,
                              url |-> cloudinaryResult.secure_url, type |-> type,
                              public_id |-> cloudinaryResult.public_id,
                              status |-> "DEFAULT"]}
                      /\ autoInc' = [autoInc EXCEPT !.videos = @ + 1]
                      /\ resp' = reply("uploadMedia", 201, "uploaded successfully")
                      /\ UNCHANGED <<accountTables, tryoutTables, likes, comments,
                                     notifications, playerStats, shortlists,
                                     systemLogs, inflight>>

\* cloudinary.service deleteResource: cloudinary.uploader.destroy is
\* requested; the object is gone when the provider answers, and kept when
\* the call throws.
deleteResource(provider, publicId, ok) ==
    [provider EXCEPT !.destroyed = @ \cup {publicId},
                  !.objects = IF ok THEN @ \ {publicId} ELSE @]

\* cloudinaryService.deleteFile(public_id, ...) inside the controllers' try:
\* what the call makes of the storage provider. The service exports no deleteFile,
\* so the call is a TypeError, which the catch around it logs as a warning.
deleteFile(provider, publicId, ok) ==
    IF "deleteFile" \in cloudinaryExports
    THEN deleteResource(provider, publicId, ok)
    ELSE provider

\* player.controller deleteVideo
deleteVideo(h, videoId) ==
    LET g == enter(playerDeleteVideoRoute, h)
        playerId == g.user.id
        video == { v \in videos : v.id = videoId /\ v.player_id = playerId }
    IN  IF g.status # 0
        THEN resp' = denied("deleteVideo", g) /\ unchangedDb
        ELSE IF video = {}
        THEN resp' = reply("deleteVideo", 404, "Video not found or unauthorized")
             /\ unchangedDb
        ELSE \E v \in video : \E ok \in BOOLEAN :
             /\ cloud' = IF v.public_id # NoPublicId
                         THEN deleteFile(cloud, v.public_id, ok)
                         ELSE cloud   \* a local file: fs.unlink, failure logged
             /\ videos' = { w \in videos : w.id # videoId }
             /\ resp' = reply("deleteVideo", 200, "Video deleted successfully")
             /\ UNCHANGED <<accountTables, tryoutTables, likes, comments,
                            notificationTables, playerStats, shortlists,
                            systemLogs, inflight>>

\* admin.controller deleteVideo
adminDeleteVideo(h, videoId) ==
    LET g == enter(adminDeleteVideoRoute, h)
        videoDetails == { v \in videos : v.id = videoId }
    IN  IF g.status # 0
        THEN resp' = denied("adminDeleteVideo", g) /\ unchangedDb
        ELSE IF videoDetails = {}
        THEN resp' = reply("adminDeleteVideo", 404, "Video not found")
             /\ unchangedDb
        ELSE \E v \in videoDetails : \E ok \in BOOLEAN, logged \in LogOutcomes :
             /\ cloud' = IF v.public_id # NoPublicId
                         THEN deleteFile(cloud, v.public_id, ok)
                         ELSE cloud
             /\ videos' = { w \in videos : w.id # videoId }
             /\ systemLogs' =
                   logAdminAction(g.user.id, "DELETE", "video", videoId, logged)
             /\ autoInc' = [autoInc EXCEPT !.systemLogs = systemLogsNextId(logged)]
             /\ resp' = afterLog(logged,
                   reply("adminDeleteVideo", 200, "Video deleted"),
                   reply("adminDeleteVideo", 500, "Could not delete video"))
             /\ UNCHANGED <<accountTables, tryoutTables, likes, comments,
                            notifications, playerStats, shortlists, inflight>>

\* Media specification: players 3 and 4 and admin 5 signed in, scout 1 not;
\* player 4 owns one video stored as a local file before uploads went to the
\* provider; the admin has logged before.
MediaUsers ==
    { SeedUser(1, "scout"), SeedUser(3, "player"), SeedUser(4, "player"),
      SeedUser(5, "admin") }

LocalVideo ==
    [id |-> 1, player_id |-> 4, url |-> <<"/uploads/", "clip.mp4">>,
     type |-> "video", public_id |-> NoPublicId, status |-> "DEFAULT"]

FileInputs ==
    {NoFile} \cup
    { [mimetype |-> <<"video", "mp4">>, size |-> 1],
      [mimetype |-> <<"image", "png">>, size |-> 1],
      [mimetype |-> <<"video", "mp4">>, size |-> 0],
      [mimetype |-> <<"video", "mp4">>, size |-> fileSizeLimit + 1],
      [mimetype |-> <<"application", "pdf">>, size |-> 1] }

\* The ids of the local video and of the uploads, and one id of no video.
MediaVideoIdInputs == 1 .. MaxVideos + 2

InitMedia ==
    /\ users = MediaUsers
    /\ issued = { TokenOf(u) : u \in { u \in MediaUsers : u.role # "scout" } }
    /\ playerProfiles = {}
    /\ scoutProfiles = {}
    /\ tryouts = {}
    /\ invitations = {}
    /\ videos = {LocalVideo}
    /\ likes = {}
    /\ comments = {}
    /\ notifications = {}
    /\ autoInc = [FirstIds EXCEPT !.users = 6, !.tryouts = 1, !.videos = 2,
                                  !.systemLogs = MaxLogs]
    /\ playerStats = {}
    /\ shortlists = {}
    /\ systemLogs = EarlierLogs
    /\ cloud \in { [NoObjects EXCEPT !.configured = c] : c \in BOOLEAN }
    /\ inflight = NoRequests
    /\ resp = NoResponse

NextMedia ==
    \/ \E h \in Callers, file \in FileInputs : uploadMedia(h, file)
    \/ \E h \in Callers, id \in MediaVideoIdInputs : deleteVideo(h, id)
    \/ \E h \in Callers, id \in MediaVideoIdInputs : adminDeleteVideo(h, id)

SpecMedia == InitMedia /\ [][NextMedia]_vars

(***************************************************************************)
(* Performance statistics and the derived rating.                          *)
(***************************************************************************)
playerPerformanceStatsRoute == RoleGatedRoutes["POST /api/player/performance-stats"]
playerUpdateProfileRoute == RoleGatedRoutes["PUT /api/player/profile"]

\* JavaScript numbers of the rating computation, kept exactly as fractions
\* num/den in lowest terms with den > 0.
RECURSIVE gcd(_, _)
gcd(a, b) == IF b = 0 THEN a ELSE gcd(b, a % b)

abs(a) == IF a < 0 THEN -a ELSE a

fraction(n, d) ==
    LET g == gcd(abs(n), abs(d))
        s == IF d < 0 THEN -1 ELSE 1
    IN  [num |-> (s * n) \div g, den |-> (s * d) \div g]

number(n) == [num |-> n, den |-> 1]
plus(a, b) == fraction(a.num * b.den + b.num * a.den, a.den * b.den)
times(a, b) == fraction(a.num * b.num, a.den * b.den)
over(a, b) == fraction(a.num * b.den, a.den * b.num)
lessEq(a, b) == a.num * b.den <= b.num * a.den
max(a, b) == IF lessEq(a, b) THEN b ELSE a
min(a, b) == IF lessEq(a, b) THEN a ELSE b

\* Number.prototype.toFixed(2) of a non-negative number: the integer n with
\* n / 100 nearest to x, the larger one on a tie, printed as units.hundredths.
toFixed(x) ==
    LET n == (200 * x.num + x.den) \div (2 * x.den)
    IN  [units |-> n \div 100, hundredths |-> n % 100]

\* Mutant: the result is not brought into the 1-5 scale.
ratingUnclamped(stats) ==
    IF stats.matches_played > 0
    THEN LET numerator == (stats.goals * 2) + stats.assists - stats.yellow_cards
                          - (stats.red_cards * 3)
             rawRating == fraction(numerator, stats.matches_played)
         IN  plus(times(over(plus(rawRating, number(3)), number(6)), number(4)),
                  number(1))
    ELSE number(1)

\* updatePerformanceStats, "Calculate player rating"
rating(stats) ==
    IF stats.matches_played > 0
    THEN LET numerator == (stats.goals * 2) + stats.assists - stats.yellow_cards
                          - (stats.red_cards * 3)
             denominator == stats.matches_played
             rawRating == fraction(numerator, denominator)
             scaledRating ==
                 plus(times(over(plus(rawRating, number(3)), number(6)), number(4)),
                      number(1))
         IN  max(number(1), min(number(5), scaledRating))
    ELSE number(1)

\* Object.entries(stats), in insertion order
statKeys == <<"matches_played", "goals", "assists", "yellow_cards", "red_cards">>

\* The first key whose value is negative; 0 when there is none.
RECURSIVE firstInvalid(_, _)
firstInvalid(body, i) ==
    IF i > Len(statKeys) THEN 0
    ELSE IF body[statKeys[i]] < 0 THEN i
    ELSE firstInvalid(body, i + 1)

statsOf(body) == [k \in { statKeys[i] : i \in 1 .. Len(statKeys) } |-> body[k]]

\* player.controller updatePerformanceStats. A body is the five values and
\* the set of keys it leaves out.
updatePerformanceStats(h, body) ==
    LET g == enter(playerPerformanceStatsRoute, h)
        playerId == g.user.id
        stats == statsOf(body)
        existing == { s \in playerStats : s.player_id = playerId }
    IN  IF g.status # 0
        THEN resp' = denied("updatePerformanceStats", g) /\ unchangedDb
        ELSE IF body.undefined # {}
        THEN resp' = reply("updatePerformanceStats", 400,
                           "All statistics fields are required")
             /\ unchangedDb
        ELSE IF firstInvalid(body, 1) # 0
        THEN resp' = reply("updatePerformanceStats", 400,
                           <<statKeys[firstInvalid(body, 1)],
                             " must be a non-negative integer">>)
             /\ unchangedDb
        ELSE /\ IF existing # {}
                THEN /\ playerStats' =
                          { IF s.player_id = playerId
                            THEN [id |-> s.id, player_id |-> playerId] @@ stats
                            ELSE s : s \in playerStats }
                     /\ autoInc' = autoInc
                ELSE /\ playerStats' = playerStats \cup
                          {[id |-> autoInc.playerStats, player_id |-> playerId]
                             @@ stats}
                     /\ autoInc' = [autoInc EXCEPT !.playerStats = @ + 1]
             /\ playerProfiles' =
                   { IF p.user_id = playerId
                     THEN [p EXCEPT !.rating = rating(stats)]
                     ELSE p : p \in playerProfiles }
             /\ resp' = [op |-> "updatePerformanceStats", status |-> 200,
                         message |-> "Performance statistics updated successfully",
                         stats |-> stats, rating |-> toFixed(rating(stats))]
             /\ UNCHANGED <<users, issued, tryoutTables, mediaTables, notifications,
                            shortlists, systemLogs, cloud, scoutProfiles, inflight>>

\* A body field the request leaves out.
undefined == "undefined"

\* Mutant: the column keeps its value whatever is written.
coalesceKeepingColumn(value, column, null) == column

\* SQL COALESCE(value, column) over the NULLs of NoProfile
coalesce(value, column, null) == IF value = null THEN column ELSE value

\* INSERT INTO player_profiles ... ON DUPLICATE KEY UPDATE ...: the table
\* after the upsert; inserted is the new row, updated the row an existing
\* one becomes.
upsertProfile(userId, inserted, updated) ==
    IF \E p \in playerProfiles : p.user_id = userId
    THEN { IF p.user_id = userId THEN updated ELSE p : p \in playerProfiles }
    ELSE playerProfiles \cup {inserted}

\* player.controller updateProfile behind auth, role('player') and
\* upload.single('profileImage'); position stands for the three text columns
\* position, club and bio, which the handler treats alike.
updateProfile(h, body, file) ==
    LET g == enter(playerUpdateProfileRoute, h)
        userId == g.user.id
        currentProfileData == { p \in playerProfiles : p.user_id = userId }
        currentProfile ==
            IF currentProfileData # {}
            THEN CHOOSE p \in currentProfileData : TRUE
            ELSE NoProfile
        publicId == [folder |-> "profiles", player |-> userId, n |-> cloud.next]
        updatedPosition ==
            IF body.position # undefined THEN body.position
            ELSE currentProfile.position
        updatedDOB ==
            IF body.date_of_birth # undefined THEN body.date_of_birth
            ELSE currentProfile.date_of_birth
        renamed ==
            IF body.name # ""
            THEN { IF u.id = userId THEN [u EXCEPT !.name = body.name] ELSE u :
                     u \in users }
            ELSE users
        \* "Remove old image from Cloudinary if exists", in its own try/catch
        afterDelete(provider) ==
            IF currentProfile.public_id # NoPublicId
            THEN deleteFile(provider, currentProfile.public_id, TRUE)
            ELSE provider
        details(profileImage, public_id) ==
            upsertProfile(userId,
                [NoProfile EXCEPT !.user_id = userId, !.position = updatedPosition,
                                  !.profile_image = profileImage,
                                  !.date_of_birth = updatedDOB,
                                  !.public_id = public_id],
                [currentProfile EXCEPT !.position = updatedPosition,
                              !.profile_image = coalesce(profileImage, @, << >>),
                              !.date_of_birth = coalesce(updatedDOB, @, ""),
                              !.public_id = coalesce(public_id, @, NoPublicId)])
        unchangedRest ==
            UNCHANGED <<issued, tryoutTables, mediaTables, notificationTables,
                        playerStats, shortlists, systemLogs, scoutProfiles, inflight>>
    IN  IF g.status # 0
        THEN resp' = denied("updateProfile", g) /\ unchangedDb
        ELSE IF file # NoFile
                /\ (file.mimetype \notin allowedTypes \/ file.size > fileSizeLimit)
        THEN \* multer passes its error to the application's error handler
             resp' = reply("updateProfile", 500, "Something went wrong!")
             /\ unchangedDb
        ELSE IF body.updateType = "profileImageOnly" /\ file # NoFile
        THEN \E outcome \in UploadOutcomes :
             LET cloudinaryResult == uploadBuffer(file, publicId, outcome)
             IN  IF cloudinaryResult.error # << >>
                 THEN resp' = reply("updateProfile", 500, "Failed to update profile")
                      /\ unchangedDb
                 ELSE /\ cloud.next <= MaxVideos
                      /\ cloud' = afterDelete(cloudinaryResult.provider)
                      /\ playerProfiles' =
                            upsertProfile(userId,
                                [NoProfile EXCEPT
                                    !.user_id = userId,
                                    !.profile_image = cloudinaryResult.secure_url,
                                    !.public_id = cloudinaryResult.public_id],
                                [currentProfile EXCEPT
                                        !.profile_image = cloudinaryResult.secure_url,
                                        !.public_id = cloudinaryResult.public_id])
                      /\ resp' = reply("updateProfile", 200,
                                       "Profile image updated successfully")
                      /\ users' = users
                      /\ unchangedRest
        ELSE IF file # NoFile
        THEN \E outcome \in UploadOutcomes :
             LET cloudinaryResult == uploadBuffer(file, publicId, outcome)
             IN  IF cloudinaryResult.error # << >>
                 THEN \* the name was already written when the upload throws
                      /\ users' = renamed
                      /\ resp' = reply("updateProfile", 500,
                                       "Failed to update profile")
                      /\ UNCHANGED <<playerProfiles, cloud, inflight>>
                      /\ unchangedRest
                 ELSE /\ cloud.next <= MaxVideos
                      /\ users' = renamed
                      /\ cloud' = afterDelete(cloudinaryResult.provider)
                      /\ playerProfiles' =
                            details(cloudinaryResult.secure_url,
                                    cloudinaryResult.public_id)
                      /\ resp' = reply("updateProfile", 200,
                                       "Profile updated successfully")
                      /\ unchangedRest
        ELSE /\ users' = renamed
             /\ playerProfiles' =
                   details(currentProfile.profile_image, currentProfile.public_id)
             /\ resp' = reply("updateProfile", 200, "Profile updated successfully")
             /\ cloud' = cloud
             /\ unchangedRest

\* Statistics specification: player 3 signed in, registered with or without
\* a date of birth (so with or without a profile row); player 4 with a
\* profile and statistics but no live token; scout 1.
StatsUsers == { SeedUser(1, "scout"), SeedUser(3, "player"), SeedUser(4, "player") }

ExampleStats ==
    [matches_played |-> 10, goals |-> 5, assists |-> 3, yellow_cards |-> 1,
     red_cards |-> 0]

RegisteredProfile(userId) ==
    [NoProfile EXCEPT !.user_id = userId, !.date_of_birth = "2001"]

StatBodies ==
    LET example == ExampleStats @@ [undefined |-> {}]
    IN  { example,
          [example EXCEPT !.matches_played = 0],
          [example EXCEPT !.matches_played = 2],
          [example EXCEPT !.matches_played = 2, !.goals = 0, !.red_cards = 4],
          [example EXCEPT !.goals = 0],
          [example EXCEPT !.undefined = {"goals"}],
          [example EXCEPT !.assists = -1] }

ProfileBodies ==
    { [name |-> "", position |-> "GK", date_of_birth |-> undefined,
       updateType |-> ""],
      [name |-> "m", position |-> undefined, date_of_birth |-> "2002",
       updateType |-> ""],
      [name |-> "", position |-> undefined, date_of_birth |-> undefined,
       updateType |-> "profileImageOnly"] }

ProfileFileInputs ==
    { NoFile, [mimetype |-> <<"image", "png">>, size |-> 1],
      [mimetype |-> <<"application", "pdf">>, size |-> 1] }

InitStats ==
    /\ users = StatsUsers
    /\ issued = { TokenOf(u) : u \in { v \in StatsUsers : v.id # 4 } }
    /\ playerProfiles \in
          { {[RegisteredProfile(4) EXCEPT !.rating = rating(ExampleStats)]} \cup own :
              own \in { {}, {RegisteredProfile(3)} } }
    /\ scoutProfiles = {}
    /\ tryouts = {}
    /\ invitations = {}
    /\ videos = {}
    /\ likes = {}
    /\ comments = {}
    /\ notifications = {}
    /\ autoInc = [FirstIds EXCEPT !.tryouts = 1, !.playerStats = 2]
    /\ playerStats = {[id |-> 1, player_id |-> 4] @@ ExampleStats}
    /\ shortlists = {}
    /\ systemLogs = {}
    /\ cloud = NoObjects
    /\ inflight = NoRequests
    /\ resp = NoResponse

NextStats ==
    \/ \E h \in Callers, body \in StatBodies : updatePerformanceStats(h, body)
    \/ \E h \in Callers, body \in ProfileBodies, file \in ProfileFileInputs :
          updateProfile(h, body, file)

SpecStats == InitStats /\ [][NextStats]_vars

\* Rating specification: updatePerformanceStats alone, called by player 3
\* (who has a profile row) with every number of matches and goals in
\* 0 .. MaxStat, assists and cards 0 or MaxStat, the statistics of the
\* worked example, and two bodies validation rejects.
RatingBodies ==
    [matches_played : 0 .. MaxStat, goals : 0 .. MaxStat, assists : {0, MaxStat},
     yellow_cards : {0, MaxStat}, red_cards : {0, MaxStat}, undefined : {{}}]
    \cup { ExampleStats @@ [undefined |-> {}],
           [ExampleStats @@ [undefined |-> {}] EXCEPT !.undefined = {"red_cards"}],
           [ExampleStats @@ [undefined |-> {}] EXCEPT !.yellow_cards = -1] }

InitRating ==
    /\ users = StatsUsers
    /\ issued = { TokenOf(u) : u \in { v \in StatsUsers : v.id = 3 } }
    /\ playerProfiles =
          { [RegisteredProfile(4) EXCEPT !.rating = rating(ExampleStats)],
            RegisteredProfile(3) }
    /\ scoutProfiles = {}
    /\ tryouts = {}
    /\ invitations = {}
    /\ videos = {}
    /\ likes = {}
    /\ comments = {}
    /\ notifications = {}
    /\ autoInc = [FirstIds EXCEPT !.tryouts = 1, !.playerStats = 2]
    /\ playerStats = {[id |-> 1, player_id |-> 4] @@ ExampleStats}
    /\ shortlists = {}
    /\ systemLogs = {}
    /\ cloud = NoObjects
    /\ inflight = NoRequests
    /\ resp = NoResponse

NextRating ==
    \E h \in Callers, body \in RatingBodies : updatePerformanceStats(h, body)

SpecRating == InitRating /\ [][NextRating]_vars

(***************************************************************************)
(* Shortlists.                                                             *)
(***************************************************************************)
scoutAddToShortlistRoute == RoleGatedRoutes["POST /api/scout/shortlist"]
scoutRemoveFromShortlistRoute == RoleGatedRoutes["DELETE /api/scout/shortlist/:playerId"]

\* Mutant: the lookup finds nothing.
existingShortlistNeverFound(scoutId, playerId) == {}

\* SELECT id FROM shortlists WHERE scout_id = ? AND player_id = ?
existingShortlist(scoutId, playerId) ==
    { s \in shortlists : s.scout_id = scoutId /\ s.player_id = playerId }

\* addToShortlist (POST /api/scout/shortlist)
addToShortlist(h, player_id) ==
    LET g == enter(scoutAddToShortlistRoute, h)
        scoutId == g.user.id
        \* users u LEFT JOIN scout_profiles s ON u.id = s.user_id WHERE u.id = ?
        scoutDetails == { u \in users : u.id = scoutId }
    IN  IF g.status # 0
        THEN resp' = denied("addToShortlist", g) /\ unchangedDb
        ELSE IF player_id = 0
        THEN resp' = reply("addToShortlist", 400, "Player ID is required")
             /\ unchangedDb
        ELSE IF existingShortlist(scoutId, player_id) # {}
        THEN resp' = reply("addToShortlist", 409, "Player already shortlisted")
             /\ unchangedDb
        ELSE IF ~userExists(player_id) \/ ~userExists(scoutId)
        THEN \* the insert violates a foreign key and throws
             resp' = reply("addToShortlist", 500, "Server error") /\ unchangedDb
        ELSE /\ autoInc.shortlists <= MaxShortlists
             /\ \E ok \in (IF scoutDetails # {} THEN InsertOutcomes ELSE {FALSE}) :
                  /\ shortlists' = shortlists \cup
                        {[id |-> autoInc.shortlists, scout_id |-> scoutId,
                          player_id |-> player_id]}
                  /\ notifications' = createNotification(player_id, "shortlist", ok)
                  /\ autoInc' = [autoInc EXCEPT
                                    !.shortlists = @ + 1,
                                    !.notifications = notificationsNextId(ok)]
                  /\ resp' =
                        IF scoutDetails # {}
                        THEN afterNotification(ok,
                                reply("addToShortlist", 201, "Player added to shortlist"),
                                reply("addToShortlist", 500, "Server error"))
                        ELSE reply("addToShortlist", 201, "Player added to shortlist")
             /\ UNCHANGED <<accountTables, tryoutTables, mediaTables, playerStats,
                            systemLogs, cloud, inflight>>

\* removeFromShortlist (DELETE /api/scout/shortlist/:playerId)
removeFromShortlist(h, playerId) ==
    LET g == enter(scoutRemoveFromShortlistRoute, h)
        scoutId == g.user.id
    IN  IF g.status # 0
        THEN resp' = denied("removeFromShortlist", g) /\ unchangedDb
        ELSE /\ shortlists' = shortlists \ existingShortlist(scoutId, playerId)
             /\ resp' = reply("removeFromShortlist", 200,
                              "Player removed from shortlist")
             /\ UNCHANGED <<accountTables, tryoutTables, mediaTables,
                            notificationTables, playerStats, systemLogs, cloud, inflight>>

\* Shortlist specification: scouts 1 and 2, players 3 and 4; 0 is a request
\* without a player id, 9 the id of no user.
ShortlistPlayerIdInputs == {0, 3, 4, 9}

InitShortlists ==
    /\ users = SeedUsers
    /\ issued = { TokenOf(u) : u \in SeedUsers }
    /\ playerProfiles = {}
    /\ scoutProfiles = {}
    /\ tryouts = {}
    /\ invitations = {}
    /\ videos = {}
    /\ likes = {}
    /\ comments = {}
    /\ notifications = {}
    /\ autoInc = [FirstIds EXCEPT !.tryouts = 1]
    /\ playerStats = {}
    /\ shortlists = {}
    /\ systemLogs = {}
    /\ cloud = NoObjects
    /\ inflight = NoRequests
    /\ resp = NoResponse

NextShortlists ==
    \/ \E h \in Callers, p \in ShortlistPlayerIdInputs : addToShortlist(h, p)
    \/ \E h \in Callers, p \in ShortlistPlayerIdInputs : removeFromShortlist(h, p)

SpecShortlists == InitShortlists /\ [][NextShortlists]_vars

(***************************************************************************)
(* Notifying operations specification: the six handlers that call          *)
(* NotificationUtil, started either with the tryout of scout 1 and scout 1 *)
(* and player 4 signed in, or with the video of player 3 and player 4     *)
(* signed in.                                                              *)
(***************************************************************************)
NotifyUsers == { u \in SeedUsers : u.id \in {1, 3, 4} }

NotifyPlayerIdInputs == {4}

NotifyVideoIdInputs == { v.id : v \in CommentVideos }

NotifyContentInputs == { <<"a">> }

InitNotify ==
    /\ users = NotifyUsers
    /\ playerProfiles = {}
    /\ scoutProfiles = {}
    /\ \/ /\ issued = { TokenOf(u) : u \in { u \in NotifyUsers : u.id \in {1, 4} } }
          /\ tryouts = SeedTryouts
          /\ videos = {}
       \/ /\ issued = { TokenOf(u) : u \in { u \in NotifyUsers : u.id = 4 } }
          /\ tryouts = {}
          /\ videos = CommentVideos
    /\ invitations = {}
    /\ likes = {}
    /\ comments = {}
    /\ notifications = {}
    /\ autoInc = [FirstIds EXCEPT !.videos = 2]
    /\ playerStats = {}
    /\ shortlists = {}
    /\ systemLogs = {}
    /\ cloud = NoObjects
    /\ inflight = NoRequests
    /\ resp = NoResponse

NextNotify ==
    \/ \E h \in Callers, t \in TryoutIdInputs, p \in NotifyPlayerIdInputs :
          invitePlayer(h, t, p)
    \/ \E h \in Callers, i \in InvitationIdInputs :
          cancelInvitation(h, i)
    \/ \E h \in Callers, i \in InvitationIdInputs, s \in validStatuses :
          updateInvitationStatus(h, i, s)
    \/ \E h \in Callers, p \in NotifyPlayerIdInputs : addToShortlist(h, p)
    \/ \E h \in Callers, v \in NotifyVideoIdInputs : likeVideo(h, v)
    \/ \E h \in Callers, v \in NotifyVideoIdInputs, c \in NotifyContentInputs :
          addComment(h, v, c)

SpecNotify == InitNotify /\ [][NextNotify]_vars

(***************************************************************************)
(* Admin operations on users, videos and tryout locations.                 *)
(***************************************************************************)
adminDeleteUserRoute == RoleGatedRoutes["DELETE /api/admin/users/:id"]
adminUpdateUserStatusRoute == RoleGatedRoutes["PUT /api/admin/users/:id/status"]
adminResetUserPasswordRoute == RoleGatedRoutes["POST /api/admin/users/:id/reset-password"]
adminUpdateVideoStatusRoute == RoleGatedRoutes["PUT /api/admin/media/:id/status"]
adminAddTryoutLocationRoute == RoleGatedRoutes["POST /api/admin/locations"]
adminDeleteTryoutLocationRoute == RoleGatedRoutes["DELETE /api/admin/locations/:location"]

userStatuses == {"active", "inactive", "suspended"}
videoStatuses == {"pending", "approved", "rejected"}
LocationTemplate == "Location Template"

\* The rows of the other tables that name the user. The schema is not part
\* of the sources: a DELETE FROM users that leaves such rows behind either
\* throws (the key restricts) or takes them along (the key cascades).
videosOfUser(userId) == { v \in videos : v.player_id = userId }
tryoutsOfUser(userId) == { t \in tryouts : t.scout_id = userId }

hasDependents(userId) ==
    \/ videosOfUser(userId) # {}
    \/ tryoutsOfUser(userId) # {}
    \/ \E i \in invitations : i.player_id = userId
    \/ \E l \in likes : l.user_id = userId
    \/ \E c \in comments : c.user_id = userId
    \/ \E n \in notifications : n.user_id = userId
    \/ \E s \in shortlists : userId \in {s.scout_id, s.player_id}
    \/ \E p \in playerProfiles : p.user_id = userId
    \/ \E p \in scoutProfiles : p.user_id = userId
    \/ \E s \in playerStats : s.player_id = userId
    \/ \E l \in systemLogs : l.user_id = userId

ForeignKeyOutcomes == {"restrict", "cascade"}

\* admin.controller deleteUser
deleteUser(h, userId) ==
    LET g == enter(adminDeleteUserRoute, h)
        gone == { v.id : v \in videosOfUser(userId) }
        closed == { t.id : t \in tryoutsOfUser(userId) }
    IN  IF g.status # 0
        THEN resp' = denied("deleteUser", g) /\ unchangedDb
        ELSE \E fk \in (IF hasDependents(userId) THEN ForeignKeyOutcomes ELSE {"cascade"}) :
             IF fk = "restrict"
             THEN resp' = reply("deleteUser", 500, "Could not delete user")
                  /\ unchangedDb
             ELSE \E logged \in LogOutcomes :
                  /\ users' = { u \in users : u.id # userId }
                  /\ playerProfiles' = { p \in playerProfiles : p.user_id # userId }
                  /\ scoutProfiles' = { p \in scoutProfiles : p.user_id # userId }
                  /\ playerStats' = { s \in playerStats : s.player_id # userId }
                  /\ videos' = videos \ videosOfUser(userId)
                  /\ likes' = { l \in likes : l.user_id # userId /\ l.video_id \notin gone }
                  /\ comments' =
                        { c \in comments : c.user_id # userId /\ c.video_id \notin gone }
                  /\ tryouts' = tryouts \ tryoutsOfUser(userId)
                  /\ invitations' =
                        { i \in invitations :
                             i.player_id # userId /\ i.tryout_id \notin closed }
                  /\ shortlists' =
                        { s \in shortlists : userId \notin {s.scout_id, s.player_id} }
                  /\ notifications' = { n \in notifications : n.user_id # userId }
                  /\ systemLogs' =
                        { l \in logAdminAction(g.user.id, "DELETE", "user", userId, logged) :
                             l.user_id # userId \/ l.id = autoInc.systemLogs }
                  /\ autoInc' = [autoInc EXCEPT !.systemLogs = systemLogsNextId(logged)]
                  /\ resp' = afterLog(logged,
                        reply("deleteUser", 200, "User deleted"),
                        reply("deleteUser", 500, "Could not delete user"))
                  /\ UNCHANGED <<issued, cloud, inflight>>

\* admin.controller updateUserStatus
updateUserStatus(h, userId, status) ==
    LET g == enter(adminUpdateUserStatusRoute, h)
    IN  IF g.status # 0
        THEN resp' = denied("updateUserStatus", g) /\ unchangedDb
        ELSE IF status = "" \/ status \notin userStatuses
        THEN resp' = reply("updateUserStatus", 400, "Invalid status value")
             /\ unchangedDb
        ELSE \E logged \in LogOutcomes :
             /\ users' = { IF u.id = userId THEN [u EXCEPT !.status = status] ELSE u :
                           u \in users }
             /\ systemLogs' = logAdminAction(g.user.id, "UPDATE", "user", userId, logged)
             /\ autoInc' = [autoInc EXCEPT !.systemLogs = systemLogsNextId(logged)]
             /\ resp' = afterLog(logged,
                   reply("updateUserStatus", 200, "User status updated"),
                   reply("updateUserStatus", 500, "Could not update user status"))
             /\ UNCHANGED <<issued, playerProfiles, scoutProfiles, tryoutTables, mediaTables,
                            notifications, playerStats, shortlists, cloud, inflight>>

\* Math.random().toString(36).slice(-8): the temporary passwords of a run,
\* passwords being numbered as in SeedUser.
TempPasswords == {8}

\* admin.controller resetUserPassword
resetUserPassword(h, userId) ==
    LET g == enter(adminResetUserPasswordRoute, h)
    IN  IF g.status # 0
        THEN resp' = denied("resetUserPassword", g) /\ unchangedDb
        ELSE \E tempPassword \in TempPasswords : \E logged \in LogOutcomes :
             /\ users' = { IF u.id = userId
                           THEN [u EXCEPT !.password = bcryptHash(tempPassword)]
                           ELSE u : u \in users }
             /\ systemLogs' =
                   logAdminAction(g.user.id, "RESET_PASSWORD", "user", userId, logged)
             /\ autoInc' = [autoInc EXCEPT !.systemLogs = systemLogsNextId(logged)]
             /\ resp' = afterLog(logged,
                   [op |-> "resetUserPassword", status |-> 200,
                    message |-> "Password reset", tempPassword |-> tempPassword],
                   reply("resetUserPassword", 500, "Could not reset password"))
             /\ UNCHANGED <<issued, playerProfiles, scoutProfiles, tryoutTables, mediaTables,
                            notifications, playerStats, shortlists, cloud, inflight>>

\* admin.controller updateVideoStatus
updateVideoStatus(h, videoId, status) ==
    LET g == enter(adminUpdateVideoStatusRoute, h)
    IN  IF g.status # 0
        THEN resp' = denied("updateVideoStatus", g) /\ unchangedDb
        ELSE IF status = "" \/ status \notin videoStatuses
        THEN resp' = reply("updateVideoStatus", 400, "Invalid status value")
             /\ unchangedDb
        ELSE \E logged \in LogOutcomes :
             /\ videos' = { IF v.id = videoId THEN [v EXCEPT !.status = status] ELSE v :
                            v \in videos }
             /\ systemLogs' = logAdminAction(g.user.id, "UPDATE", "video", videoId, logged)
             /\ autoInc' = [autoInc EXCEPT !.systemLogs = systemLogsNextId(logged)]
             /\ resp' = afterLog(logged,
                   reply("updateVideoStatus", 200, "Video status updated"),
                   reply("updateVideoStatus", 500, "Could not update video status"))
             /\ UNCHANGED <<accountTables, tryoutTables, likes, comments,
                            notifications, playerStats, shortlists, cloud, inflight>>

\* SELECT location FROM tryouts WHERE location = ? LIMIT 1
existingLocations(location) == { t \in tryouts : t.location = location }

\* admin.controller addTryoutLocation
addTryoutLocation(h, location) ==
    LET g == enter(adminAddTryoutLocationRoute, h)
    IN  IF g.status # 0
        THEN resp' = denied("addTryoutLocation", g) /\ unchangedDb
        ELSE IF location = << >> \/ trim(location) = << >>
        THEN resp' = reply("addTryoutLocation", 400, "Location name is required")
             /\ unchangedDb
        ELSE IF existingLocations(location) # {}
        THEN resp' = reply("addTryoutLocation", 400, "Location already exists")
             /\ unchangedDb
        ELSE IF ~userExists(g.user.id)
        THEN \* the insert violates the foreign key and throws
             resp' = reply("addTryoutLocation", 500, "Failed to add location")
             /\ unchangedDb
        ELSE \E logged \in LogOutcomes :
             /\ autoInc.tryouts <= FirstIds.tryouts + MaxLocations
             /\ tryouts' = tryouts \cup
                   {[id |-> autoInc.tryouts, scout_id |-> g.user.id,
                     name |-> LocationTemplate, location |-> location]}
             /\ systemLogs' = logAdminAction(g.user.id, "CREATE", "location", 0, logged)
             /\ autoInc' = [autoInc EXCEPT !.tryouts = @ + 1,
                                           !.systemLogs = systemLogsNextId(logged)]
             /\ resp' = afterLog(logged,
                   [op |-> "addTryoutLocation", status |-> 201,
                    message |-> "Location added successfully", location |-> location],
                   reply("addTryoutLocation", 500, "Failed to add location"))
             /\ UNCHANGED <<accountTables, invitations, mediaTables, notifications,
                            playerStats, shortlists, cloud, inflight>>

\* Mutant: the tryouts in use are not counted.
activeTryoutsNotCounted(location) == {}

\* SELECT COUNT(*) as count FROM tryouts WHERE location = ? AND name != 'Location Template'
activeTryouts(location) ==
    { t \in tryouts : t.location = location /\ t.name # LocationTemplate }

\* DELETE FROM tryouts WHERE location = ? AND name = 'Location Template'
locationTemplates(location) ==
    { t \in tryouts : t.location = location /\ t.name = LocationTemplate }

\* admin.controller deleteTryoutLocation
deleteTryoutLocation(h, location) ==
    LET g == enter(adminDeleteTryoutLocationRoute, h)
        count == Cardinality(activeTryouts(location))
    IN  IF g.status # 0
        THEN resp' = denied("deleteTryoutLocation", g) /\ unchangedDb
        ELSE IF location = << >>
        THEN resp' = reply("deleteTryoutLocation", 400, "Location name is required")
             /\ unchangedDb
        ELSE IF count > 0
        THEN resp' = [op |-> "deleteTryoutLocation", status |-> 400,
                      message |-> "Cannot delete location that is in use by active tryouts",
                      count |-> count]
             /\ unchangedDb
        ELSE IF \E i \in invitations, t \in locationTemplates(location) : i.tryout_id = t.id
        THEN \* an invitation still names the template: the delete throws
             resp' = reply("deleteTryoutLocation", 500, "Failed to delete location")
             /\ unchangedDb
        ELSE \E logged \in LogOutcomes :
             /\ tryouts' = tryouts \ locationTemplates(location)
             /\ systemLogs' = logAdminAction(g.user.id, "DELETE", "location", 0, logged)
             /\ autoInc' = [autoInc EXCEPT !.systemLogs = systemLogsNextId(logged)]
             /\ resp' = afterLog(logged,
                   reply("deleteTryoutLocation", 200, "Location deleted successfully"),
                   reply("deleteTryoutLocation", 500, "Failed to delete location"))
             /\ UNCHANGED <<accountTables, invitations, mediaTables, notifications,
                            playerStats, shortlists, cloud, inflight>>


\* Admin specification: admin 5 and player 3 signed in; player 4 owns the one
\* video; scout 1 holds a tryout in Cairo, which the admin had or had not
\* registered as a location before.
AdminUsers == MediaUsers

AdminTryouts ==
    { { [id |-> 2, scout_id |-> 1, name |-> "Trial", location |-> <<"Cairo">>] },
      { [id |-> 1, scout_id |-> 5, name |-> LocationTemplate, location |-> <<"Cairo">>],
        [id |-> 2, scout_id |-> 1, name |-> "Trial", location |-> <<"Cairo">>] } }

\* 9 is the id of no user and of no video.
AdminUserIdInputs == {4, 9}
UserStatusInputs == {"inactive", "banned"}
AdminVideoIdInputs == {1, 9}
VideoStatusInputs == {"approved", "published"}
LocationInputs == { << >>, <<" ">>, <<"Cairo">>, <<"Giza">> }
LocationParams == { <<"Cairo">>, <<"Giza">> }

InitAdmin ==
    /\ users = AdminUsers
    /\ issued = { TokenOf(u) : u \in { u \in AdminUsers : u.id \in {3, 5} } }
    /\ playerProfiles = {}
    /\ scoutProfiles = {}
    /\ tryouts \in AdminTryouts
    /\ invitations = {}
    /\ videos = {LocalVideo}
    /\ likes = {}
    /\ comments = {}
    /\ notifications = {}
    /\ autoInc = [FirstIds EXCEPT !.users = 6, !.tryouts = 3, !.videos = 2,
                                  !.systemLogs = MaxLogs]
    /\ playerStats = {}
    /\ shortlists = {}
    /\ systemLogs = EarlierLogs
    /\ cloud = NoObjects
    /\ inflight = NoRequests
    /\ resp = NoResponse

NextAdmin ==
    \/ \E h \in Callers, u \in AdminUserIdInputs : deleteUser(h, u)
    \/ \E h \in Callers, u \in AdminUserIdInputs, s \in UserStatusInputs :
          updateUserStatus(h, u, s)
    \/ \E h \in Callers, u \in AdminUserIdInputs : resetUserPassword(h, u)
    \/ \E h \in Callers, v \in AdminVideoIdInputs : adminDeleteVideo(h, v)
    \/ \E h \in Callers, v \in AdminVideoIdInputs, s \in VideoStatusInputs :
          updateVideoStatus(h, v, s)
    \/ \E h \in Callers, l \in LocationInputs : addTryoutLocation(h, l)
    \/ \E h \in Callers, l \in LocationParams : deleteTryoutLocation(h, l)

SpecAdmin == InitAdmin /\ [][NextAdmin]_vars

(***************************************************************************)
(* Notification inbox: controllers/notification.controller.js.             *)
(***************************************************************************)
\* routes/notification.routes.js: router.use(auth), no role middleware
notificationRoute == <<Auth>>

\* Mutant: the lookup by id alone.
ownNotificationOfAnyUser(notificationId, userId) ==
    { n \in notifications : n.id = notificationId }

\* SELECT * FROM notifications WHERE id = ? AND user_id = ?
ownNotification(notificationId, userId) ==
    { n \in notifications : n.id = notificationId /\ n.user_id = userId }

\* markAsRead
markAsRead(h, notificationId) ==
    LET g == enter(notificationRoute, h)
        userId == g.user.id
    IN  IF g.status # 0
        THEN resp' = denied("markAsRead", g) /\ unchangedDb
        ELSE IF ownNotification(notificationId, userId) = {}
        THEN resp' = reply("markAsRead", 404, "Notification not found") /\ unchangedDb
        ELSE \* UPDATE notifications SET is_read = 1 WHERE id = ?
             /\ notifications' =
                   { IF n.id = notificationId THEN [n EXCEPT !.is_read = TRUE] ELSE n :
                     n \in notifications }
             /\ resp' = reply("markAsRead", 200, "Notification marked as read")
             /\ UNCHANGED <<accountTables, tryoutTables, mediaTables, autoInc,
                            otherTables, inflight>>

\* markAllAsRead
markAllAsRead(h) ==
    LET g == enter(notificationRoute, h)
        userId == g.user.id
    IN  IF g.status # 0
        THEN resp' = denied("markAllAsRead", g) /\ unchangedDb
        ELSE \* UPDATE notifications SET is_read = 1 WHERE user_id = ?
             /\ notifications' =
                   { IF n.user_id = userId THEN [n EXCEPT !.is_read = TRUE] ELSE n :
                     n \in notifications }
             /\ resp' = reply("markAllAsRead", 200, "All notifications marked as read")
             /\ UNCHANGED <<accountTables, tryoutTables, mediaTables, autoInc,
                            otherTables, inflight>>

\* deleteNotification
deleteNotification(h, notificationId) ==
    LET g == enter(notificationRoute, h)
        userId == g.user.id
    IN  IF g.status # 0
        THEN resp' = denied("deleteNotification", g) /\ unchangedDb
        ELSE IF ownNotification(notificationId, userId) = {}
        THEN resp' = reply("deleteNotification", 404, "Notification not found")
             /\ unchangedDb
        ELSE \* DELETE FROM notifications WHERE id = ?
             /\ notifications' = { n \in notifications : n.id # notificationId }
             /\ resp' = reply("deleteNotification", 200, "Notification deleted")
             /\ UNCHANGED <<accountTables, tryoutTables, mediaTables, autoInc,
                            otherTables, inflight>>

\* Inbox specification: scout 1 and players 3 and 4 signed in; player 3 has
\* two notifications, one of them read, player 4 has one, scout 1 has one.
InboxUsers == { u \in SeedUsers : u.id \in {1, 3, 4} }

SeedNotifications ==
    { [id |-> 1, user_id |-> 3, message |-> "invitation", is_read |-> FALSE],
      [id |-> 2, user_id |-> 3, message |-> "shortlist", is_read |-> TRUE],
      [id |-> 3, user_id |-> 4, message |-> "invitation", is_read |-> FALSE],
      [id |-> 4, user_id |-> 1, message |-> "accepted", is_read |-> FALSE] }

NotificationIdInputs == { n.id : n \in SeedNotifications }

InitInbox ==
    /\ users = InboxUsers
    /\ issued = { TokenOf(u) : u \in InboxUsers }
    /\ playerProfiles = {}
    /\ scoutProfiles = {}
    /\ tryouts = SeedTryouts
    /\ invitations = {}
    /\ videos = {}
    /\ likes = {}
    /\ comments = {}
    /\ notifications = SeedNotifications
    /\ autoInc = [FirstIds EXCEPT !.notifications = 5]
    /\ playerStats = {}
    /\ shortlists = {}
    /\ systemLogs = {}
    /\ cloud = NoObjects
    /\ inflight = NoRequests
    /\ resp = NoResponse

NextInbox ==
    \/ \E h \in Callers, n \in NotificationIdInputs : markAsRead(h, n)
    \/ \E h \in Callers : markAllAsRead(h)
    \/ \E h \in Callers, n \in NotificationIdInputs : deleteNotification(h, n)

SpecInbox == InitInbox /\ [][NextInbox]_vars

(***************************************************************************)
(* Roles and statuses specification: one admin exists and is signed in;    *)
(* register runs with roles inside and outside the three, updateUserStatus *)
(* with statuses inside and outside the three.                             *)
(***************************************************************************)
RolesAdmin == [FirstAccount("active") EXCEPT !.role = "admin"]

RoleBodies ==
    [name : {"n"}, email : {"b", "c"}, password : {"p"}, confirmPassword : {"p"},
     role : {"player", "coach"}, date_of_birth : {""}]

\* The ids of the admin and of the registered users.
RolesUserIdInputs == 1 .. MaxUsers

StatusValueInputs == userStatuses \cup {"", "banned"}

InitRoles ==
    /\ users = {RolesAdmin}
    /\ issued = {TokenOf(RolesAdmin)}
    /\ playerProfiles = {}
    /\ scoutProfiles = {}
    /\ tryouts = {}
    /\ invitations = {}
    /\ videos = {}
    /\ likes = {}
    /\ comments = {}
    /\ notifications = {}
    /\ autoInc = [FirstIds EXCEPT !.users = 2, !.tryouts = 1, !.systemLogs = MaxLogs]
    /\ playerStats = {}
    /\ shortlists = {}
    /\ systemLogs = EarlierLogs
    /\ cloud = NoObjects
    /\ inflight = NoRequests
    /\ resp = NoResponse

NextRoles ==
    \/ \E body \in RoleBodies : register(body)
    \/ \E h \in Callers, u \in RolesUserIdInputs, s \in StatusValueInputs :
          updateUserStatus(h, u, s)

SpecRoles == InitRoles /\ [][NextRoles]_vars

(***************************************************************************)
(* Tryouts of a scout: create, update, delete.                             *)
(***************************************************************************)
scoutCreateTryoutRoute == RoleGatedRoutes["POST /api/scout/tryouts"]
scoutUpdateTryoutRoute == RoleGatedRoutes["PUT /api/scout/tryouts/:tryoutId"]
scoutDeleteTryoutRoute == RoleGatedRoutes["DELETE /api/scout/tryouts/:tryoutId"]
playerCreateTryoutRoute == RoleGatedRoutes["POST /api/player/tryouts"]

\* The INSERT INTO tryouts of the three create handlers; the date column is
\* not kept.
insertTryout(scoutId, name, location) ==
    tryouts \cup
       {[id |-> autoInc.tryouts, scout_id |-> scoutId, name |-> name,
         location |-> location]}

\* scout.controller createTryoutWithTime, mounted on POST /api/scout/tryouts
createTryoutWithTime(h, body) ==
    LET g == enter(scoutCreateTryoutRoute, h)
    IN  IF g.status # 0
        THEN resp' = denied("createTryoutWithTime", g) /\ unchangedDb
        ELSE IF body.name = "" \/ body.location = << >> \/ body.date = "" \/ body.time = ""
        THEN resp' = reply("createTryoutWithTime", 400, "All fields required")
             /\ unchangedDb
        ELSE IF ~userExists(g.user.id)
        THEN \* the insert violates the foreign key and throws
             resp' = reply("createTryoutWithTime", 500, "Error creating tryout with time")
             /\ unchangedDb
        ELSE /\ autoInc.tryouts < FirstIds.tryouts + MaxTryouts
             /\ tryouts' = insertTryout(g.user.id, body.name, body.location)
             /\ autoInc' = [autoInc EXCEPT !.tryouts = @ + 1]
             /\ resp' = reply("createTryoutWithTime", 201, "Tryout created with time")
             /\ UNCHANGED <<accountTables, invitations, mediaTables, notifications,
                            otherTables, inflight>>

\* player.controller createTryout, mounted on POST /api/player/tryouts
createTryout(h, body) ==
    LET g == enter(playerCreateTryoutRoute, h)
    IN  IF g.status # 0
        THEN resp' = denied("createTryout", g) /\ unchangedDb
        ELSE IF body.name = "" \/ body.location = << >> \/ body.date = ""
        THEN resp' = reply("createTryout", 400, "Name, location, and date are required")
             /\ unchangedDb
        ELSE IF ~userExists(g.user.id)
        THEN resp' = reply("createTryout", 500, "Failed to create tryout")
             /\ unchangedDb
        ELSE /\ autoInc.tryouts < FirstIds.tryouts + MaxTryouts
             /\ tryouts' = insertTryout(g.user.id, body.name, body.location)
             /\ autoInc' = [autoInc EXCEPT !.tryouts = @ + 1]
             /\ resp' = [op |-> "createTryout", status |-> 201,
                         message |-> "Tryout created successfully",
                         tryoutId |-> autoInc.tryouts]
             /\ UNCHANGED <<accountTables, invitations, mediaTables, notifications,
                            otherTables, inflight>>

\* scout.controller updateTryout
updateTryout(h, tryoutId, body) ==
    LET g == enter(scoutUpdateTryoutRoute, h)
    IN  IF g.status # 0
        THEN resp' = denied("updateTryout", g) /\ unchangedDb
        ELSE IF body.name = "" \/ body.location = << >> \/ body.date = "" \/ body.time = ""
        THEN resp' = reply("updateTryout", 400, "All fields required") /\ unchangedDb
        ELSE IF ownedTryouts(tryoutId, g.user.id) = {}
        THEN resp' = reply("updateTryout", 403,
                           "You do not have permission to update this tryout")
             /\ unchangedDb
        ELSE /\ tryouts' =
                   { IF t.id = tryoutId
                     THEN [t EXCEPT !.name = body.name, !.location = body.location]
                     ELSE t : t \in tryouts }
             /\ resp' = reply("updateTryout", 200, "Tryout updated successfully")
             /\ UNCHANGED <<accountTables, invitations, mediaTables, notificationTables,
                            otherTables, inflight>>

\* Mutant: the invitations of the tryout are left in place.
invitationsOfTryoutKept(tryoutId) == {}

\* DELETE FROM invitations WHERE tryout_id = ?
invitationsOfTryout(tryoutId) == { i \in invitations : i.tryout_id = tryoutId }

\* scout.controller deleteTryout
deleteTryout(h, tryoutId) ==
    LET g == enter(scoutDeleteTryoutRoute, h)
    IN  IF g.status # 0
        THEN resp' = denied("deleteTryout", g) /\ unchangedDb
        ELSE IF ownedTryouts(tryoutId, g.user.id) = {}
        THEN resp' = reply("deleteTryout", 403,
                           "You do not have permission to delete this tryout")
             /\ unchangedDb
        ELSE /\ invitations' = invitations \ invitationsOfTryout(tryoutId)
             /\ tryouts' = { t \in tryouts : t.id # tryoutId }
             /\ resp' = reply("deleteTryout", 200, "Tryout deleted successfully")
             /\ UNCHANGED <<accountTables, mediaTables, notificationTables, otherTables, inflight>>

\* Tryouts specification: scouts 1 and 2 signed in; scout 1
\* holds the seeded tryout and invites player 3 to its tryouts.
TryoutUsers == SeedUsers

TryoutBodies ==
    [name : {"Trial", ""}, location : {<<"Giza">>}, date : {"d"}, time : {"t"}]

\* The ids of the seeded tryout and of the ones a run can create.
TryoutParamInputs == 1 .. FirstIds.tryouts + MaxTryouts - 1

InitTryouts ==
    /\ users = TryoutUsers
    /\ issued = { TokenOf(u) : u \in { u \in TryoutUsers : u.id \in {1, 2} } }
    /\ playerProfiles = {}
    /\ scoutProfiles = {}
    /\ tryouts = SeedTryouts
    /\ invitations = {}
    /\ videos = {}
    /\ likes = {}
    /\ comments = {}
    /\ notifications = {}
    /\ autoInc = FirstIds
    /\ playerStats = {}
    /\ shortlists = {}
    /\ systemLogs = {}
    /\ cloud = NoObjects
    /\ inflight = NoRequests
    /\ resp = NoResponse

NextTryouts ==
    \/ \E h \in Callers, body \in TryoutBodies : createTryoutWithTime(h, body)
    \/ \E h \in Callers, t \in TryoutParamInputs, body \in TryoutBodies :
          updateTryout(h, t, body)
    \/ \E h \in Callers, t \in TryoutParamInputs : deleteTryout(h, t)
    \/ \E h \in Callers, t \in TryoutParamInputs, p \in {3} : invitePlayer(h, t, p)

SpecTryouts == InitTryouts /\ [][NextTryouts]_vars

\* Locations specification: scout 1 and admin 5 signed in; scout 1 holds the
\* seeded tryout, creates and renames tryouts under any name and invites
\* player 3; the admin registers and deletes locations.
LocationTryoutBodies ==
    [name : {"Trial", LocationTemplate}, location : {<<"Giza">>}, date : {"d"},
     time : {"t"}]

SharedLocations == { <<"Giza">> }

InitLocations ==
    /\ users = MediaUsers
    /\ issued = { TokenOf(u) : u \in { u \in MediaUsers : u.id \in {1, 5} } }
    /\ playerProfiles = {}
    /\ scoutProfiles = {}
    /\ tryouts = SeedTryouts
    /\ invitations = {}
    /\ videos = {}
    /\ likes = {}
    /\ comments = {}
    /\ notifications = {}
    /\ autoInc = [FirstIds EXCEPT !.users = 6, !.systemLogs = MaxLogs]
    /\ playerStats = {}
    /\ shortlists = {}
    /\ systemLogs = EarlierLogs
    /\ cloud = NoObjects
    /\ inflight = NoRequests
    /\ resp = NoResponse

NextLocations ==
    \/ \E h \in Callers, body \in LocationTryoutBodies : createTryoutWithTime(h, body)
    \/ \E h \in Callers, body \in LocationTryoutBodies : createTryout(h, body)
    \/ \E h \in Callers, t \in TryoutParamInputs, body \in LocationTryoutBodies :
          updateTryout(h, t, body)
    \/ \E h \in Callers, t \in TryoutParamInputs : invitePlayer(h, t, 3)
    \/ \E h \in Callers, l \in SharedLocations : addTryoutLocation(h, l)
    \/ \E h \in Callers, l \in SharedLocations : deleteTryoutLocation(h, l)

SpecLocations == InitLocations /\ [][NextLocations]_vars

\* Suspension specification: admin 5 and player 4 hold tokens issued while
\* both were active; the admin changes the status of player 4 or deletes the
\* account, and player 4 likes and unlikes the video of player 3.
SuspensionVideos ==
    { [id |-> 1, player_id |-> 3, url |-> <<"/uploads/", "clip.mp4">>,
       type |-> "video", public_id |-> NoPublicId, status |-> "DEFAULT"] }

InitSuspension ==
    /\ users = MediaUsers
    /\ issued = { TokenOf(u) : u \in { u \in MediaUsers : u.id \in {4, 5} } }
    /\ playerProfiles = {}
    /\ scoutProfiles = {}
    /\ tryouts = {}
    /\ invitations = {}
    /\ videos = SuspensionVideos
    /\ likes = {}
    /\ comments = {}
    /\ notifications = {}
    /\ autoInc = [FirstIds EXCEPT !.users = 6, !.videos = 2, !.systemLogs = MaxLogs]
    /\ playerStats = {}
    /\ shortlists = {}
    /\ systemLogs = EarlierLogs
    /\ cloud = NoObjects
    /\ inflight = NoRequests
    /\ resp = NoResponse

NextSuspension ==
    \/ \E h \in Callers, s \in userStatuses : updateUserStatus(h, 4, s)
    \/ \E h \in Callers : deleteUser(h, 4)
    \/ \E h \in Callers : likeVideo(h, 1)
    \/ \E h \in Callers : unlikeVideo(h, 1)

SpecSuspension == InitSuspension /\ [][NextSuspension]_vars

(***************************************************************************)
(* The scout's profile: scout.controller updateScoutProfile.               *)
(***************************************************************************)
scoutUpdateProfileRoute == RoleGatedRoutes["PUT /api/scout/profile"]

\* A scout_profiles row with every column NULL; organization stands for the
\* two text columns organization and phone, which the handler treats alike.
NoScoutProfile ==
    [user_id |-> 0, organization |-> "", profile_image |-> << >>,
     public_id |-> NoPublicId]

\* INSERT INTO scout_profiles ... ON DUPLICATE KEY UPDATE ...
upsertScoutProfile(userId, inserted, updated) ==
    IF \E p \in scoutProfiles : p.user_id = userId
    THEN { IF p.user_id = userId THEN updated ELSE p : p \in scoutProfiles }
    ELSE scoutProfiles \cup {inserted}

\* scout.controller updateScoutProfile behind auth, role('scout') and
\* upload.single('profileImage')
updateScoutProfile(h, body, file) ==
    LET g == enter(scoutUpdateProfileRoute, h)
        scoutId == g.user.id
        currentProfileData == { p \in scoutProfiles : p.user_id = scoutId }
        currentProfile ==
            IF currentProfileData # {}
            THEN CHOOSE p \in currentProfileData : TRUE
            ELSE NoScoutProfile
        publicId == [folder |-> "scout_profiles", player |-> scoutId, n |-> cloud.next]
        updatedOrganization ==
            IF body.organization # undefined THEN body.organization
            ELSE currentProfile.organization
        renamed ==
            IF body.name # ""
            THEN { IF u.id = scoutId THEN [u EXCEPT !.name = body.name] ELSE u :
                     u \in users }
            ELSE users
        \* "Remove old image from Cloudinary if exists", in its own try/catch
        afterDelete(provider) ==
            IF currentProfile.public_id # NoPublicId
            THEN deleteFile(provider, currentProfile.public_id, TRUE)
            ELSE provider
        details(profileImage, public_id) ==
            upsertScoutProfile(scoutId,
                [NoScoutProfile EXCEPT !.user_id = scoutId,
                                       !.organization = updatedOrganization,
                                       !.profile_image = profileImage,
                                       !.public_id = public_id],
                [currentProfile EXCEPT
                    !.organization = updatedOrganization,
                    !.profile_image = coalesce(profileImage, @, << >>),
                    !.public_id = coalesce(public_id, @, NoPublicId)])
        unchangedRest ==
            UNCHANGED <<issued, playerProfiles, tryoutTables, mediaTables,
                        notificationTables, playerStats, shortlists, systemLogs, inflight>>
    IN  IF g.status # 0
        THEN resp' = denied("updateScoutProfile", g) /\ unchangedDb
        ELSE IF file # NoFile
                /\ (file.mimetype \notin allowedTypes \/ file.size > fileSizeLimit)
        THEN \* multer passes its error to the application's error handler
             resp' = reply("updateScoutProfile", 500, "Something went wrong!")
             /\ unchangedDb
        ELSE IF body.updateType = "profileImageOnly" /\ file # NoFile
        THEN \E outcome \in UploadOutcomes :
             LET cloudinaryResult == uploadBuffer(file, publicId, outcome)
             IN  IF cloudinaryResult.error # << >>
                 THEN resp' = reply("updateScoutProfile", 500, "Failed to update profile")
                      /\ unchangedDb
                 ELSE /\ cloud.next <= MaxVideos
                      /\ cloud' = afterDelete(cloudinaryResult.provider)
                      /\ scoutProfiles' =
                            upsertScoutProfile(scoutId,
                                [NoScoutProfile EXCEPT
                                    !.user_id = scoutId,
                                    !.profile_image = cloudinaryResult.secure_url,
                                    !.public_id = cloudinaryResult.public_id],
                                [currentProfile EXCEPT
                                    !.profile_image = cloudinaryResult.secure_url,
                                    !.public_id = cloudinaryResult.public_id])
                      /\ resp' = reply("updateScoutProfile", 200,
                                       "Profile image updated successfully")
                      /\ users' = users
                      /\ unchangedRest
        ELSE IF file # NoFile
        THEN \E outcome \in UploadOutcomes :
             LET cloudinaryResult == uploadBuffer(file, publicId, outcome)
             IN  IF cloudinaryResult.error # << >>
                 THEN \* the name was already written when the upload throws
                      /\ users' = renamed
                      /\ resp' = reply("updateScoutProfile", 500,
                                       "Failed to update profile")
                      /\ UNCHANGED <<scoutProfiles, cloud, inflight>>
                      /\ unchangedRest
                 ELSE /\ cloud.next <= MaxVideos
                      /\ users' = renamed
                      /\ cloud' = afterDelete(cloudinaryResult.provider)
                      /\ scoutProfiles' =
                            details(cloudinaryResult.secure_url,
                                    cloudinaryResult.public_id)
                      /\ resp' = reply("updateScoutProfile", 200,
                                       "Profile updated successfully")
                      /\ unchangedRest
        ELSE /\ users' = renamed
             /\ scoutProfiles' =
                   details(currentProfile.profile_image, currentProfile.public_id)
             /\ resp' = reply("updateScoutProfile", 200, "Profile updated successfully")
             /\ cloud' = cloud
             /\ unchangedRest

\* Profiles specification: scout 1 and player 3 signed in, each with a
\* profile whose image was uploaded to the provider before; both update
\* their profiles with or without a new image.
OldImage(folder, userId) == [folder |-> folder, player |-> userId, n |-> 0]

ProfileUsers == { SeedUser(1, "scout"), SeedUser(3, "player") }

ScoutProfileBodies ==
    { [name |-> "m", organization |-> "Ahly", updateType |-> ""],
      [name |-> "", organization |-> undefined, updateType |-> "profileImageOnly"] }

PlayerProfileBodies ==
    { [name |-> "m", position |-> "GK", date_of_birth |-> undefined,
       updateType |-> ""],
      [name |-> "", position |-> undefined, date_of_birth |-> undefined,
       updateType |-> "profileImageOnly"] }

ImageFileInputs == { NoFile, [mimetype |-> <<"image", "png">>, size |-> 1] }

InitProfiles ==
    /\ users = ProfileUsers
    /\ issued = { TokenOf(u) : u \in ProfileUsers }
    /\ playerProfiles =
          { [RegisteredProfile(3) EXCEPT
                !.profile_image = <<"https://res.cloudinary.com/", OldImage("profiles", 3)>>,
                !.public_id = OldImage("profiles", 3)] }
    /\ scoutProfiles =
          { [NoScoutProfile EXCEPT
                !.user_id = 1,
                !.profile_image =
                    <<"https://res.cloudinary.com/", OldImage("scout_profiles", 1)>>,
                !.public_id = OldImage("scout_profiles", 1)] }
    /\ tryouts = {}
    /\ invitations = {}
    /\ videos = {}
    /\ likes = {}
    /\ comments = {}
    /\ notifications = {}
    /\ autoInc = FirstIds
    /\ playerStats = {}
    /\ shortlists = {}
    /\ systemLogs = {}
    /\ cloud = [NoObjects EXCEPT
                   !.objects = {OldImage("profiles", 3), OldImage("scout_profiles", 1)}]
    /\ inflight = NoRequests
    /\ resp = NoResponse

NextProfiles ==
    \/ \E h \in Callers, body \in PlayerProfileBodies, file \in ImageFileInputs :
          updateProfile(h, body, file)
    \/ \E h \in Callers, body \in ScoutProfileBodies, file \in ImageFileInputs :
          updateScoutProfile(h, body, file)

SpecProfiles == InitProfiles /\ [][NextProfiles]_vars

(***************************************************************************)
(* Requests that overlap. Every handler awaits its queries one by one, so   *)
(* the queries of another request can run between its SELECT and its        *)
(* INSERT, UPDATE or DELETE. Here a handler is two steps: the reads up to   *)
(* its last test, and the writes with the answer.                          *)
(***************************************************************************)
Request(op, pc, h, args, seen, status) ==
    [op |-> op, pc |-> pc, h |-> h, args |-> args, seen |-> seen, status |-> status]

\* The client may send a request: it has none under way.
maySend(c) == inflight[c].pc \in {"idle", "done"}

\* The handler of client c answers r and ends.
answers(c, h, args, r) ==
    /\ inflight' = [inflight EXCEPT ![c] = Request(r.op, "done", h, args, {}, r.status)]
    /\ resp' = r

\* The handler of client c has read seen, passed its tests and awaits its write.
awaitsWrite(c, op, h, args, seen) ==
    /\ inflight' = [inflight EXCEPT ![c] = Request(op, "read", h, args, seen, 0)]
    /\ resp' = resp

unchangedTables ==
    UNCHANGED <<accountTables, tryoutTables, mediaTables, notificationTables,
                otherTables>>

\* Mutant: the duplicate test reads the table again when the row is inserted.
existingReadAgain(seen, current) == current

\* if (existing.length): the test is made on the rows the SELECT returned,
\* whatever the table holds by the time the INSERT runs.
existingWhenInserting(seen, current) == seen

\* The schema is not part of the sources: an INSERT of a key the table holds
\* already is accepted (no unique key) or throws (a unique key).
DuplicateKeyOutcomes(current) == IF current = {} THEN {TRUE} ELSE {TRUE, FALSE}

\* invitePlayer up to "Prevent duplicate invite"
invitePlayerReads(c, h, tryout_id, player_id) ==
    LET g == enter(scoutInviteRoute, h)
        args == <<tryout_id, player_id>>
        scoutAndTryout ==
            { t \in ownedTryouts(tryout_id, g.user.id) : userExists(t.scout_id) }
        existing == existingInvitations(tryout_id, player_id)
    IN  /\ maySend(c)
        /\ unchangedTables
        /\ IF g.status # 0
           THEN answers(c, h, args, denied("invitePlayer", g))
           ELSE IF tryout_id = 0 \/ player_id = 0
           THEN answers(c, h, args,
                   reply("invitePlayer", 400, "Tryout and Player IDs are required"))
           ELSE IF scoutAndTryout = {}
           THEN answers(c, h, args,
                   reply("invitePlayer", 403, "You are not the owner of this tryout"))
           ELSE IF existing # {}
           THEN answers(c, h, args,
                   reply("invitePlayer", 409, "Player already invited to this tryout"))
           ELSE awaitsWrite(c, "invitePlayer", h, args, existing)

\* invitePlayer from "Insert new invitation"
invitePlayerWrites(c) ==
    LET r == inflight[c]
        tryout_id == r.args[1]
        player_id == r.args[2]
        current == existingInvitations(tryout_id, player_id)
    IN  /\ r.pc = "read"
        /\ r.op = "invitePlayer"
        /\ IF existingWhenInserting(r.seen, current) # {}
           THEN answers(c, r.h, r.args,
                   reply("invitePlayer", 409, "Player already invited to this tryout"))
                /\ unchangedTables
           ELSE \E accepted \in DuplicateKeyOutcomes(current) :
                IF ~accepted \/ ~userExists(player_id)
                   \/ ~\E t \in tryouts : t.id = tryout_id
                THEN answers(c, r.h, r.args,
                        reply("invitePlayer", 500, "Invitation failed"))
                     /\ unchangedTables
                ELSE /\ autoInc.invitations <= MaxInvitations
                     /\ \E ok \in InsertOutcomes :
                          /\ invitations' = invitations \cup
                                {[id |-> autoInc.invitations, tryout_id |-> tryout_id,
                                  player_id |-> player_id, status |-> "pending"]}
                          /\ notifications' =
                                createNotification(player_id, "invitation", ok)
                          /\ autoInc' = [autoInc EXCEPT
                                            !.invitations = @ + 1,
                                            !.notifications = notificationsNextId(ok)]
                          /\ answers(c, r.h, r.args,
                                afterNotification(ok,
                                   reply("invitePlayer", 201, "Player invited successfully"),
                                   reply("invitePlayer", 500, "Invitation failed")))
                     /\ UNCHANGED <<otherTables, accountTables, tryouts, mediaTables>>

\* likeVideo up to "Check if user already liked this video"
likeVideoReads(c, h, videoId) ==
    LET g == enter(playerLikeRoute, h)
        args == <<videoId>>
        existing == existingLike(g.user.id, videoId)
    IN  /\ maySend(c)
        /\ unchangedTables
        /\ IF g.status # 0
           THEN answers(c, h, args, denied("likeVideo", g))
           ELSE IF videoId = 0
           THEN answers(c, h, args, reply("likeVideo", 400, "Video ID is required"))
           ELSE IF videoExists(videoId) = {}
           THEN answers(c, h, args, reply("likeVideo", 404, "Video not found"))
           ELSE IF existing # {}
           THEN answers(c, h, args, reply("likeVideo", 200, "Already liked this video"))
           ELSE awaitsWrite(c, "likeVideo", h, args, existing)

\* likeVideo from "Get video owner and details for notification"
likeVideoWrites(c) ==
    LET r == inflight[c]
        userId == r.h.payload.id
        videoId == r.args[1]
        current == existingLike(userId, videoId)
        videoResult == { v \in videoExists(videoId) : userExists(userId) }
        notified == \E v \in videoResult : notifiesOwner(v.player_id, userId)
    IN  /\ r.pc = "read"
        /\ r.op = "likeVideo"
        /\ IF existingWhenInserting(r.seen, current) # {}
           THEN answers(c, r.h, r.args,
                   reply("likeVideo", 200, "Already liked this video"))
                /\ unchangedTables
           ELSE \E accepted \in DuplicateKeyOutcomes(current) :
                IF ~accepted \/ videoResult = {}
                THEN answers(c, r.h, r.args,
                        reply("likeVideo", 500, "Failed to like video"))
                     /\ unchangedTables
                ELSE /\ autoInc.likes <= MaxLikes
                     /\ \E v \in videoResult :
                        \E ok \in (IF notified THEN InsertOutcomes ELSE {FALSE}) :
                          /\ likes' = likes \cup
                                {[id |-> autoInc.likes, user_id |-> userId,
                                  video_id |-> videoId]}
                          /\ notifications' = createNotification(v.player_id, "like", ok)
                          /\ autoInc' = [autoInc EXCEPT
                                            !.likes = @ + 1,
                                            !.notifications = notificationsNextId(ok)]
                          /\ answers(c, r.h, r.args,
                                IF notified
                                THEN afterNotification(ok,
                                        reply("likeVideo", 201, "Liked video"),
                                        reply("likeVideo", 500, "Failed to like video"))
                                ELSE reply("likeVideo", 201, "Liked video"))
                     /\ UNCHANGED <<otherTables, accountTables, tryoutTables, videos,
                                    comments>>

\* addToShortlist up to its test of existing
addToShortlistReads(c, h, player_id) ==
    LET g == enter(scoutAddToShortlistRoute, h)
        args == <<player_id>>
        existing == existingShortlist(g.user.id, player_id)
    IN  /\ maySend(c)
        /\ unchangedTables
        /\ IF g.status # 0
           THEN answers(c, h, args, denied("addToShortlist", g))
           ELSE IF player_id = 0
           THEN answers(c, h, args, reply("addToShortlist", 400, "Player ID is required"))
           ELSE IF existing # {}
           THEN answers(c, h, args,
                   reply("addToShortlist", 409, "Player already shortlisted"))
           ELSE awaitsWrite(c, "addToShortlist", h, args, existing)

\* addToShortlist from its INSERT
addToShortlistWrites(c) ==
    LET r == inflight[c]
        scoutId == r.h.payload.id
        player_id == r.args[1]
        current == existingShortlist(scoutId, player_id)
    IN  /\ r.pc = "read"
        /\ r.op = "addToShortlist"
        /\ IF existingWhenInserting(r.seen, current) # {}
           THEN answers(c, r.h, r.args,
                   reply("addToShortlist", 409, "Player already shortlisted"))
                /\ unchangedTables
           ELSE \E accepted \in DuplicateKeyOutcomes(current) :
                IF ~accepted \/ ~userExists(player_id) \/ ~userExists(scoutId)
                THEN answers(c, r.h, r.args, reply("addToShortlist", 500, "Server error"))
                     /\ unchangedTables
                ELSE /\ autoInc.shortlists <= MaxShortlists
                     /\ \E ok \in InsertOutcomes :
                          /\ shortlists' = shortlists \cup
                                {[id |-> autoInc.shortlists, scout_id |-> scoutId,
                                  player_id |-> player_id]}
                          /\ notifications' =
                                createNotification(player_id, "shortlist", ok)
                          /\ autoInc' = [autoInc EXCEPT
                                            !.shortlists = @ + 1,
                                            !.notifications = notificationsNextId(ok)]
                          /\ answers(c, r.h, r.args,
                                afterNotification(ok,
                                   reply("addToShortlist", 201, "Player added to shortlist"),
                                   reply("addToShortlist", 500, "Server error")))
                     /\ UNCHANGED <<accountTables, tryoutTables, mediaTables, playerStats,
                                    systemLogs, cloud>>

\* Races specification: scout 1 with the seeded tryout and player 3 signed
\* in; player 4 owns the one video. Each of two clients sends invitations of
\* player 3, likes of the video by player 3 and shortlist additions of
\* player 3, one request after the other, while the other client does the same.
RaceUsers == { u \in SeedUsers : u.id \in {1, 3, 4} }

RaceVideos == { [id |-> 1, player_id |-> 4] }

\* Both clients carry the token of the same user.
RaceScout == Bearer([id |-> 1, role |-> "scout"])
RacePlayer == Bearer([id |-> 3, role |-> "player"])

InitRaces ==
    /\ users = RaceUsers
    /\ issued = { TokenOf(u) : u \in { u \in RaceUsers : u.id \in {1, 3} } }
    /\ playerProfiles = {}
    /\ scoutProfiles = {}
    /\ tryouts = SeedTryouts
    /\ invitations = {}
    /\ videos = RaceVideos
    /\ likes = {}
    /\ comments = {}
    /\ notifications = {}
    /\ autoInc = [FirstIds EXCEPT !.videos = 2]
    /\ playerStats = {}
    /\ shortlists = {}
    /\ systemLogs = {}
    /\ cloud = NoObjects
    /\ inflight = NoRequests
    /\ resp = NoResponse

NextRaces ==
    \/ \E c \in Clients : invitePlayerReads(c, RaceScout, 1, 3)
    \/ \E c \in Clients : invitePlayerWrites(c)
    \/ \E c \in Clients : likeVideoReads(c, RacePlayer, 1)
    \/ \E c \in Clients : likeVideoWrites(c)
    \/ \E c \in Clients : addToShortlistReads(c, RaceScout, 3)
    \/ \E c \in Clients : addToShortlistWrites(c)

SpecRaces == InitRaces /\ [][NextRaces]_vars

\* cancelInvitation up to its test of the status
cancelInvitationReads(c, h, invitationId) ==
    LET g == enter(scoutCancelInvitationRoute, h)
        args == <<invitationId>>
        invitation == scoutInvitation(invitationId, g.user.id)
    IN  /\ maySend(c)
        /\ unchangedTables
        /\ IF g.status # 0
           THEN answers(c, h, args, denied("cancelInvitation", g))
           ELSE IF invitation = {}
           THEN answers(c, h, args,
                   reply("cancelInvitation", 404, "Invitation not found or unauthorized"))
           ELSE \E i \in invitation :
                IF ~cancellable(i)
                THEN answers(c, h, args,
                        reply("cancelInvitation", 400, "Cannot cancel an invitation"))
                ELSE awaitsWrite(c, "cancelInvitation", h, args, invitation)

\* cancelInvitation from "Delete the invitation"
cancelInvitationWrites(c) ==
    LET r == inflight[c]
        invitationId == r.args[1]
    IN  /\ r.pc = "read"
        /\ r.op = "cancelInvitation"
        /\ \E i \in r.seen : \E ok \in InsertOutcomes :
             /\ invitations' = { j \in invitations : j.id # invitationId }
             /\ notifications' = createNotification(i.player_id, "canceled", ok)
             /\ autoInc' = [autoInc EXCEPT !.notifications = notificationsNextId(ok)]
             /\ answers(c, r.h, r.args,
                   afterNotification(ok,
                      reply("cancelInvitation", 200, "Invitation canceled successfully"),
                      reply("cancelInvitation", 500, "Error canceling invitation")))
        /\ UNCHANGED <<otherTables, accountTables, tryouts, mediaTables>>

\* updateInvitationStatus up to its test of invitationDetails
updateInvitationStatusReads(c, h, id, status) ==
    LET g == enter(playerUpdateInvitationRoute, h)
        args == <<id, status>>
        details == invitationDetails(id, g.user.id)
    IN  /\ maySend(c)
        /\ unchangedTables
        /\ IF g.status # 0
           THEN answers(c, h, args, denied("updateInvitationStatus", g))
           ELSE IF status \notin validStatuses
           THEN answers(c, h, args,
                   reply("updateInvitationStatus", 400,
                         "Status must be accepted or declined"))
           ELSE IF details = {}
           THEN answers(c, h, args,
                   reply("updateInvitationStatus", 404,
                         "Invitation not found or unauthorized"))
           ELSE awaitsWrite(c, "updateInvitationStatus", h, args, details)

\* updateInvitationStatus from its UPDATE, which changes no row when the
\* invitation is gone by then
updateInvitationStatusWrites(c) ==
    LET r == inflight[c]
    IN  /\ r.pc = "read"
        /\ r.op = "updateInvitationStatus"
        /\ \E d \in r.seen : \E ok \in InsertOutcomes :
             /\ invitations' = setInvitationStatus(r.args[1], r.args[2])
             /\ notifications' = createNotification(d.scout_id, r.args[2], ok)
             /\ autoInc' = [autoInc EXCEPT !.notifications = notificationsNextId(ok)]
             /\ answers(c, r.h, r.args,
                   afterNotification(ok,
                      reply("updateInvitationStatus", 200, r.args[2]),
                      reply("updateInvitationStatus", 500, "Could not update invitation")))
        /\ UNCHANGED <<otherTables, accountTables, tryouts, mediaTables>>

\* Answer race specification: scout 1 has invited player 3 to the seeded
\* tryout; the scout cancels while the player answers, each client sending
\* one request after the other.
PendingInvitations ==
    { [id |-> 1, tryout_id |-> 1, player_id |-> 3, status |-> "pending"] }

InitAnswerRace ==
    /\ users = SeedUsers
    /\ issued = { TokenOf(u) : u \in { u \in SeedUsers : u.id \in {1, 3} } }
    /\ playerProfiles = {}
    /\ scoutProfiles = {}
    /\ tryouts = SeedTryouts
    /\ invitations = PendingInvitations
    /\ videos = {}
    /\ likes = {}
    /\ comments = {}
    /\ notifications = {}
    /\ autoInc = [FirstIds EXCEPT !.invitations = 2]
    /\ playerStats = {}
    /\ shortlists = {}
    /\ systemLogs = {}
    /\ cloud = NoObjects
    /\ inflight = NoRequests
    /\ resp = NoResponse

NextAnswerRace ==
    \/ \E c \in Clients, h \in Callers : cancelInvitationReads(c, h, 1)
    \/ \E c \in Clients : cancelInvitationWrites(c)
    \/ \E c \in Clients, h \in Callers, s \in validStatuses :
          updateInvitationStatusReads(c, h, 1, s)
    \/ \E c \in Clients : updateInvitationStatusWrites(c)

SpecAnswerRace == InitAnswerRace /\ [][NextAnswerRace]_vars

\* Reactions specification: players 3 and 4 signed in, each owning one
\* video, player 3 having commented on the own one before; both like,
\* unlike and comment on both videos.
ReactionUsers == { u \in SeedUsers : u.id \in {3, 4} }

ReactionVideoIdInputs == { v.id : v \in SeedVideos }

\* The comments player 3 left on the own video before.
EarlierComments ==
    { [id |-> i, user_id |-> 3, video_id |-> 1, comment |-> <<"a">>] :
        i \in 1 .. MaxComments - 1 }

InitReactions ==
    /\ users = ReactionUsers
    /\ issued = { TokenOf(u) : u \in ReactionUsers }
    /\ playerProfiles = {}
    /\ scoutProfiles = {}
    /\ tryouts = {}
    /\ invitations = {}
    /\ videos = SeedVideos
    /\ likes = {}
    /\ comments = EarlierComments
    /\ notifications = {}
    /\ autoInc = [FirstIds EXCEPT !.videos = 3, !.comments = MaxComments]
    /\ playerStats = {}
    /\ shortlists = {}
    /\ systemLogs = {}
    /\ cloud = NoObjects
    /\ inflight = NoRequests
    /\ resp = NoResponse

NextReactions ==
    \/ \E h \in Callers, v \in ReactionVideoIdInputs : likeVideo(h, v)
    \/ \E h \in Callers, v \in ReactionVideoIdInputs : unlikeVideo(h, v)
    \/ \E h \in Callers, v \in ReactionVideoIdInputs : addComment(h, v, <<"a">>)

SpecReactions == InitReactions /\ [][NextReactions]_vars

(***************************************************************************)
(* Properties of the invitation handlers.                                  *)
(***************************************************************************)
Success(status) == status \in 200 .. 299

\* The caller is a signed-in user with this role.
SignedAs(h, role) == h.kind = "signed" /\ h.payload.role = role

\* The caller is the scout the tryout row belongs to.
OwnsTryout(h, tryoutId) ==
    /\ SignedAs(h, "scout")
    /\ \E t \in tryouts : t.id = tryoutId /\ t.scout_id = h.payload.id

RowsOfPair(rows, tryoutId, playerId) ==
    { i \in rows : i.tryout_id = tryoutId /\ i.player_id = playerId }

InvitationById(id) == { i \in invitations : i.id = id }

\* In the action properties below the cheap tests come first and the handler's
\* action formula last: P => Q is written  Q \/ ~P.

\* C1: an invite by the tryout's owner, through invitePlayer or sendInvitation,
\* for a (tryout, player) pair that already has an Invitation row is answered
\* 409 Conflict and inserts nothing.
C1_DuplicateInviteIsConflict ==
    [][ \A h \in Callers, t \in TryoutIdInputs, p \in PlayerIdInputs :
          \/ resp'.status = 409 /\ invitations' = invitations
          \/ ~OwnsTryout(h, t)
          \/ RowsOfPair(invitations, t, p) = {}
          \/ ~(invitePlayer(h, t, p) \/ sendInvitation(h, t, p)) ]_vars

\* C1, the part that holds of both handlers: no (tryout, player) pair ever
\* has two Invitation rows.
C1_AtMostOneRowPerPair ==
    \A i, j \in invitations :
       (i.tryout_id = j.tryout_id /\ i.player_id = j.player_id) => i = j

\* C2: an invitation whose status is accepted or declined keeps that status
\* in every later state.
C2_ResolvedStatusIsTerminal ==
    [][ \A i \in invitations :
          i.status \in {"accepted", "declined"}
          => \A j \in invitations' : j.id = i.id => j.status = i.status ]_vars

\* C3: cancelInvitation by the scout who owns the invitation's tryout: a
\* resolved invitation is answered 400 and the table is unchanged; a pending
\* one is answered 200 and its row is gone.
C3_CancelOnlyWhilePending ==
    [][ \/ resp'.op # "cancelInvitation"
        \/ \A h \in Callers, id \in InvitationIdInputs :
              \A i \in InvitationById(id) :
                \/ IF i.status = "pending"
                   THEN resp'.status = 200 /\ invitations' = invitations \ {i}
                   ELSE resp'.status = 400 /\ invitations' = invitations
                \/ ~OwnsTryout(h, i.tryout_id)
                \/ ~cancelInvitation(h, id) ]_vars

C3_CancelOfResolvedRejected ==
    /\ resp.op = "cancelInvitation"
    /\ resp.status = 400
    /\ \E i \in invitations : i.status = "accepted"

\* C9: an invite by anyone but the owner of the tryout, an accept or decline
\* by anyone but the invited player and a cancel by anyone but the owner of
\* the invitation's tryout are all rejected and leave the table unchanged.
C9_InvitationMutationsAreScoped ==
    [][ \/ ~Success(resp'.status) /\ invitations' = invitations
        \/ /\ \/ resp'.op \notin {"invitePlayer", "sendInvitation"}
              \/ \A h \in Callers, t \in TryoutIdInputs, p \in PlayerIdInputs :
                    \/ OwnsTryout(h, t)
                    \/ ~(invitePlayer(h, t, p) \/ sendInvitation(h, t, p))
           /\ \/ resp'.op # "updateInvitationStatus"
              \/ \A h \in Callers, id \in InvitationIdInputs, s \in StatusInputs :
                    \/ /\ SignedAs(h, "player")
                       /\ \E i \in InvitationById(id) : i.player_id = h.payload.id
                    \/ ~updateInvitationStatus(h, id, s)
           /\ \/ resp'.op # "cancelInvitation"
              \/ \A h \in Callers, id \in InvitationIdInputs :
                    \/ \E i \in InvitationById(id) : OwnsTryout(h, i.tryout_id)
                    \/ ~cancelInvitation(h, id) ]_vars

C9_ForeignScoutRejected ==
    /\ resp.op = "cancelInvitation"
    /\ resp.status = 404
    /\ invitations # {}

(***************************************************************************)
(* Properties of the like handlers.                                        *)
(***************************************************************************)
LikesOf(rows, userId, videoId) ==
    { l \in rows : l.user_id = userId /\ l.video_id = videoId }

LikesOfVideo(rows, videoId) == { l \in rows : l.video_id = videoId }

MayLike(h) == SignedAs(h, "player") \/ SignedAs(h, "scout")

C5_EveryLikeResponseCarriesCount ==
    [][ \A h \in Callers, v \in VideoIdInputs :
          \/ /\ "likeCount" \in DOMAIN resp'
             /\ resp'.likeCount = Cardinality(LikesOfVideo(likes', v))
          \/ ~Success(resp'.status)
          \/ ~(likeVideo(h, v) \/ unlikeVideo(h, v)) ]_vars

(***************************************************************************)
(* Properties of the comment handlers.                                     *)
(***************************************************************************)
CommentById(id) == { c \in comments : c.id = id }

\* C10: deleteComment answers 200 only to the comment's author or an admin; a
\* signed-in player or scout deleting another user's comment is answered 403
\* and the table is unchanged; a signed-in caller naming no comment is
\* answered 404.
C10_DeleteCommentByAuthorOrAdmin ==
    [][ \A h \in Callers, id \in CommentIdInputs :
          \/ resp'.op # "deleteComment"
          \/ h.kind # "signed"
          \/ ~deleteComment(h, id)
          \/ IF CommentById(id) = {}
             THEN resp'.status = 404 /\ comments' = comments
             ELSE \A c \in CommentById(id) :
                    IF c.user_id = h.payload.id \/ h.payload.role = "admin"
                    THEN resp'.status = 200 /\ comments' = comments \ {c}
                    ELSE resp'.status = 403 /\ comments' = comments ]_vars

C10_ForeignDeleteForbidden ==
    /\ resp.op = "deleteComment"
    /\ resp.status = 403
    /\ comments # {}

(***************************************************************************)
(* Properties of register and login.                                       *)
(***************************************************************************)
NoTokenIssued == "token" \notin DOMAIN resp' /\ issued' = issued

\* C7: login answers 401 to an unknown email, 403 to a known account that is
\* not active whatever the password, 401 to an active account with a wrong
\* password, and 200 with a token of payload {id, role} of the stored row to
\* an active account with its password; only the last signs a token.
C7_LoginOutcomes ==
    [][ \A e \in EmailInputs, p \in PasswordInputs :
          \/ resp'.op # "login"
          \/ ~login(e, p)
          \/ LET known == { u \in users : u.email = e }
             IN  IF known = {}
                 THEN resp'.status = 401 /\ NoTokenIssued
                 ELSE \A u \in known :
                        IF u.status # "active"
                        THEN resp'.status = 403 /\ NoTokenIssued
                        ELSE IF u.password # bcryptHash(p)
                        THEN resp'.status = 401 /\ NoTokenIssued
                        ELSE /\ resp'.status = 200
                             /\ resp'.token = [id |-> u.id, role |-> u.role]
                             /\ issued' = issued \cup {resp'.token} ]_vars

C7_InactiveLoginForbidden ==
    /\ resp.op = "login"
    /\ resp.status = 403
    /\ \E u \in users : u.status # "active" /\ u.password = bcryptHash("p")

CompleteBody(body) ==
    /\ \A f \in {"name", "email", "password", "role", "confirmPassword"} :
          body[f] # ""
    /\ body.password = body.confirmPassword

\* C8: a register request whose email is the email of a User row creates no
\* User row and no PlayerProfile row, and is answered 409 when the request is
\* complete (all fields, matching passwords); no two User rows ever share an
\* email.
C8_DuplicateEmailRejected ==
    /\ [][ \A body \in RegisterBodies :
             \/ resp'.op # "register"
             \/ { u \in users : u.email = body.email } = {}
             \/ ~register(body)
             \/ /\ users' = users
                /\ playerProfiles' = playerProfiles
                /\ CompleteBody(body) => resp'.status = 409 ]_vars
    /\ [](\A u, w \in users : u.email = w.email => u = w)

C8_ConflictAnswered ==
    /\ resp.op = "register"
    /\ resp.status = 409
    /\ Cardinality(users) > 1

(***************************************************************************)
(* Properties of the middleware chain.                                     *)
(***************************************************************************)
\* The roles a route was mounted with.
AllowedRoles(route) ==
    UNION { RoleGatedRoutes[route][i].roles : i \in DOMAIN RoleGatedRoutes[route] }

\* C6: on every role-gated route the handler is entered exactly for a request
\* whose token verified and whose role is in the route's set; no token is
\* answered 401 "No token", a token that fails verification 401 "Invalid
\* token", a verified token with another role 403; the role middleware runs
\* only after the auth middleware has passed, and denies a request that
\* carries no user.
C6_RoleGateAfterAuthentication ==
    resp.op = "request" =>
      LET h == resp.header
          allowed == AllowedRoles(resp.route)
      IN  /\ resp.handler <=>
               (h.kind = "signed" /\ h.payload \in issued /\ h.payload.role \in allowed)
          /\ resp.handler => resp.user = h.payload
          /\ h.kind \in {"none", "schemeOnly"}
                => resp.status = 401 /\ resp.message = "No token"
          /\ h.kind \in {"garbage", "expired"}
                => resp.status = 401 /\ resp.message = "Invalid token"
          /\ (h.kind = "signed" /\ h.payload.role \notin allowed) => resp.status = 403
          /\ \A i \in DOMAIN resp.trace :
                resp.trace[i].mw = "role"
                => \E j \in 1 .. i - 1 :
                      resp.trace[j].mw = "auth" /\ resp.trace[j].next
          /\ ~roleMiddleware(allowed, NoUser).next

C6_WrongRoleDenied ==
    /\ resp.op = "request"
    /\ resp.status = 403
    /\ resp.header.kind = "signed"
    /\ Len(resp.trace) = 2

(***************************************************************************)
(* Properties of the media handlers.                                       *)
(***************************************************************************)
DeleteVideoOps == {"deleteVideo", "adminDeleteVideo"}

\* The rows uploadMedia wrote: those that carry a storage identifier.
UploadedVideos(rows) == { v \in rows : v.public_id # NoPublicId }

\* C11: a successful deleteVideo (by the owner or by an admin) of a video
\* stored at the provider has requested the provider to destroy the object
\* by the time the local row is gone.
C11_RemoteDeletionRequested ==
    [][ \/ resp'.op \notin DeleteVideoOps
        \/ ~Success(resp'.status)
        \/ \A v \in UploadedVideos(videos) \ videos' :
              v.public_id \in cloud'.destroyed ]_vars

\* C11, the part that holds: whatever the storage call did, a successful
\* deleteVideo removed exactly the one row and nothing else.
C11_RowRemovedWhateverStorageDid ==
    [][ \/ resp'.op \notin DeleteVideoOps
        \/ ~Success(resp'.status)
        \/ \E v \in videos : videos' = videos \ {v} ]_vars

\* C12: every uploadMedia response is either 201 with exactly one new Video
\* row, whose storage identifier names an object the provider stored during
\* this request and whose URL is the one the provider returned for it, or an
\* error with the Video table and the provider as they were; and in every
\* state every row written by uploadMedia names an object the provider
\* stored.
C12_RowOnlyAfterUpload ==
    /\ [][ \/ resp'.op # "uploadMedia"
           \/ /\ resp'.status = 201
              /\ \E v \in videos' \ videos :
                    /\ videos' = videos \cup {v}
                    /\ v.public_id \in cloud'.objects \ cloud.objects
                    /\ v.url = <<"https://res.cloudinary.com/", v.public_id>>
           \/ /\ resp'.status >= 400
              /\ videos' = videos
              /\ cloud' = cloud ]_vars
    /\ [](\A v \in UploadedVideos(videos) :
            v.public_id \in cloud.objects \cup cloud.destroyed)

\* A failed upload answered after an earlier one had succeeded.
C12_FailedUploadLeavesNoRow ==
    /\ resp.op = "uploadMedia"
    /\ resp.status = 500
    /\ resp.message = "Error uploading to cloud storage"
    /\ UploadedVideos(videos) # {}

(***************************************************************************)
(* Properties of the rating.                                               *)
(***************************************************************************)
\* The rating the formula assigns to statistics s, as the pair <<S, D>> of
\* integers with rating = S / D and D > 0: 1 without matches, otherwise
\* ((2*goals + assists - yellow_cards - 3*red_cards) / matches_played + 3)
\* / 6 * 4 + 1 = (2n + 9m) / (3m), brought into 1 .. 5.
ClaimedRating(s) ==
    LET n == 2 * s.goals + s.assists - s.yellow_cards - 3 * s.red_cards
        m == s.matches_played
    IN  IF m = 0 THEN <<1, 1>>
        ELSE IF 2 * n + 9 * m <= 3 * m THEN <<1, 1>>
        ELSE IF 2 * n + 9 * m >= 15 * m THEN <<5, 1>>
        ELSE <<2 * n + 9 * m, 3 * m>>

\* The stored number r is the fraction c.
IsRating(r, c) == r.den > 0 /\ r.num * c[2] = c[1] * r.den

\* The two-decimal string t prints the fraction c, rounded half up.
PrintsRating(t, c) ==
    LET n == 100 * t.units + t.hundredths
        d == 2 * (100 * c[1] - n * c[2])
    IN  t.hundredths \in 0 .. 99 /\ -c[2] <= d /\ d < c[2]

\* C13: every successful updatePerformanceStats answers with the rating the
\* formula assigns to the statistics it was sent (1 without matches, the
\* clamped scaled value otherwise) printed with two decimals, and has stored
\* that rating on the caller's profile; the rating lies in 1 .. 5; the
\* statistics (10, 5, 3, 1, 0) are answered with 3.80.
C13_RatingFormula ==
    (resp.op = "updatePerformanceStats" /\ resp.status = 200)
    => LET c == ClaimedRating(resp.stats)
       IN  /\ c[2] <= c[1] /\ c[1] <= 5 * c[2]
           /\ PrintsRating(resp.rating, c)
           /\ \E p \in playerProfiles :
                 /\ p.user_id = 3
                 /\ IsRating(p.rating, c)
                 /\ lessEq(number(1), p.rating) /\ lessEq(p.rating, number(5))
           /\ \E s \in playerStats : s.player_id = 3 /\ statsOf(s) = resp.stats
           /\ resp.stats = ExampleStats
                 => resp.rating = [units |-> 3, hundredths |-> 80]

\* The statistics of the worked example were sent and answered.
C13_ExampleAnswered ==
    /\ resp.op = "updatePerformanceStats"
    /\ resp.status = 200
    /\ resp.stats = ExampleStats
    /\ \E p \in playerProfiles : p.user_id = 3 /\ IsRating(p.rating, <<19, 5>>)

\* C14: in every state, a player who has both a statistics row and a profile
\* row has on the profile the rating the formula assigns to the statistics.
C14_RatingFollowsStats ==
    \A p \in playerProfiles, s \in playerStats :
        p.user_id = s.player_id => IsRating(p.rating, ClaimedRating(s))

\* C14, the part that holds: a successful updatePerformanceStats leaves the
\* caller's profile, when there is one, with the rating of the new
\* statistics, and updateProfile never changes the rating of an existing row.
C14_OnlyStatsUpdateWritesRating ==
    [][ /\ resp'.op = "updateProfile"
           => \A p \in playerProfiles : \E q \in playerProfiles' :
                 q.user_id = p.user_id /\ q.rating = p.rating
        /\ (resp'.op = "updatePerformanceStats" /\ resp'.status = 200)
           => \A p \in playerProfiles', s \in playerStats' \ playerStats :
                 p.user_id = s.player_id => IsRating(p.rating, ClaimedRating(s))
      ]_vars

(***************************************************************************)
(* Properties of the shortlist.                                            *)
(***************************************************************************)
ShortlistRowsOf(rows, scoutId, playerId) ==
    { s \in rows : s.scout_id = scoutId /\ s.player_id = playerId }

InvitationOps ==
    {"invitePlayer", "sendInvitation", "updateInvitationStatus", "cancelInvitation"}

\* The step appended exactly one notification, unread and owned by userId.
AppendsOneUnreadFor(userId) ==
    \E n \in notifications' \ notifications :
       /\ notifications' = notifications \cup {n}
       /\ n.user_id = userId
       /\ ~n.is_read

\* The step appended nothing, or one unread notification owned by one of owners.
AppendsAtMostOneUnreadFor(owners) ==
    \/ notifications' = notifications
    \/ \E userId \in owners : AppendsOneUnreadFor(userId)

\* The scouts who own the tryout of a row.
ScoutsOf(rows) ==
    { t.scout_id : t \in { t \in tryouts : \E i \in rows : i.tryout_id = t.id } }

\* C16: creating an invitation through sendInvitation appends one unread
\* notification owned by the invited player, as creating one through
\* invitePlayer does (the other clauses of the claim, and the insert that
\* the store refuses, are in C16_NotificationsOnlyForCounterpart).
C16_SentInvitationNotifiesPlayer ==
    [][ \/ resp'.op # "sendInvitation"
        \/ ~Success(resp'.status)
        \/ \E i \in invitations' \ invitations :
              AppendsOneUnreadFor(i.player_id) ]_vars

\* C16, the part that holds: a rejected request of the four handlers appends
\* no notification, sendInvitation never appends one, and a successful
\* invitePlayer, updateInvitationStatus or cancelInvitation appends at most
\* one (none when the insert fails), unread and owned by the counterpart.
C16_NotificationsOnlyForCounterpart ==
    [][ \/ resp'.op \notin InvitationOps
        \/ IF ~Success(resp'.status) \/ resp'.op = "sendInvitation"
           THEN notifications' = notifications
           ELSE CASE resp'.op = "invitePlayer" ->
                       AppendsAtMostOneUnreadFor(
                          { i.player_id : i \in invitations' \ invitations })
                  [] resp'.op = "cancelInvitation" ->
                       AppendsAtMostOneUnreadFor(
                          { i.player_id : i \in invitations \ invitations' })
                  [] resp'.op = "updateInvitationStatus" ->
                       \E h \in Callers, id \in InvitationIdInputs, s \in StatusInputs :
                          /\ AppendsAtMostOneUnreadFor(ScoutsOf(InvitationById(id)))
                          /\ updateInvitationStatus(h, id, s) ]_vars

(***************************************************************************)
(* Properties of the notifying operations.                                 *)
(***************************************************************************)
NotifyingOps ==
    {"invitePlayer", "cancelInvitation", "updateInvitationStatus",
     "addToShortlist", "likeVideo", "addComment"}

\* The tables the notifying operations write before they notify.
primaryTables == <<invitations, shortlists, likes, comments>>

\* The status of each operation's success response.
SuccessStatus ==
    [op \in NotifyingOps |->
        IF op \in {"cancelInvitation", "updateInvitationStatus"} THEN 200 ELSE 201]

\* C15: in every step of a notifying operation the response does not depend
\* on the notification insert: the step answers with the operation's success
\* status exactly when it got as far as its primary write, and a step that
\* changed a primary table appended a notification or not, with the same
\* answer; in particular no primary write is answered with a failure.
C15_NotificationFailureIsSwallowed ==
    [][ \/ resp'.op \notin NotifyingOps
        \/ /\ primaryTables' # primaryTables => resp'.status = SuccessStatus[resp'.op]
           /\ notifications' # notifications => resp'.status = SuccessStatus[resp'.op]
           /\ resp'.status # SuccessStatus[resp'.op]
                 => primaryTables' = primaryTables /\ notifications' = notifications
      ]_vars

\* addToShortlist got its row in and answered 201 although the notification
\* insert had failed (no notification id was ever consumed).
C15_ShortlistedWithoutNotification ==
    /\ resp.op = "addToShortlist"
    /\ resp.status = 201
    /\ shortlists # {}
    /\ notifications = {}
    /\ autoInc.notifications = FirstIds.notifications

(***************************************************************************)
(* Properties of the admin operations.                                     *)
(***************************************************************************)
AdminOps ==
    {"deleteUser", "updateUserStatus", "resetUserPassword", "adminDeleteVideo",
     "updateVideoStatus", "addTryoutLocation", "deleteTryoutLocation"}

\* The action kind and entity type each operation logs.
LoggedAs ==
    [op \in AdminOps |->
        CASE op = "deleteUser" -> <<"DELETE", "user">>
          [] op = "updateUserStatus" -> <<"UPDATE", "user">>
          [] op = "resetUserPassword" -> <<"RESET_PASSWORD", "user">>
          [] op = "adminDeleteVideo" -> <<"DELETE", "video">>
          [] op = "updateVideoStatus" -> <<"UPDATE", "video">>
          [] op = "addTryoutLocation" -> <<"CREATE", "location">>
          [] op = "deleteTryoutLocation" -> <<"DELETE", "location">>]

AdminSuccessStatus(op) == IF op = "addTryoutLocation" THEN 201 ELSE 200

\* Every table but system_logs (and the id counters).
tablesButLogs ==
    <<accountTables, tryoutTables, mediaTables, notifications, playerStats,
      shortlists, cloud>>

\* The mutation of op on entity id (location l) is in place in the next state.
Performed(op, id, l) ==
    CASE op = "deleteUser" -> \A u \in users' : u.id # id
      [] op = "updateUserStatus" ->
            \E s \in userStatuses : \A u \in users' : u.id = id => u.status = s
      [] op = "resetUserPassword" ->
            \A u \in users' : u.id = id => u.password = bcryptHash(resp'.tempPassword)
      [] op = "adminDeleteVideo" ->
            (\E v \in videos : v.id = id) /\ \A v \in videos' : v.id # id
      [] op = "updateVideoStatus" ->
            \E s \in videoStatuses : \A v \in videos' : v.id = id => v.status = s
      [] op = "addTryoutLocation" ->
            \E t \in tryouts' \ tryouts :
               /\ tryouts' = tryouts \cup {t}
               /\ t.name = LocationTemplate
               /\ t.location = resp'.location
      [] op = "deleteTryoutLocation" ->
            /\ \A t \in tryouts' : ~(t.location = l /\ t.name = LocationTemplate)
            /\ \A t \in tryouts \ tryouts' : t.location = l /\ t.name = LocationTemplate

\* C18: a step of one of the seven admin operations that answers with the
\* operation's success status has its mutation in place and has appended at
\* most one system_logs row (none when the insert failed), a row that names
\* an admin as actor, the operation's action kind and entity type, and the
\* entity the mutation was about; a step that answers anything else changes
\* no table and appends no row; and no step that changed a table answers
\* with a failure, whether its log row was written or not.
C18_AdminMutationsAreLogged ==
    [][ \/ resp'.op \notin AdminOps
        \/ IF resp'.status = AdminSuccessStatus(resp'.op)
           THEN LET new == systemLogs' \ systemLogs
                IN  /\ Cardinality(new) <= 1
                    /\ \A l \in new :
                          /\ \E p \in issued : p.role = "admin" /\ p.id = l.user_id
                          /\ <<l.action, l.entity_type>> = LoggedAs[resp'.op]
                    /\ \E id \in AdminUserIdInputs \cup AdminVideoIdInputs \cup {0},
                          loc \in LocationParams :
                          /\ Performed(resp'.op, id, loc)
                          /\ \A l \in new :
                                l.entity_id = (IF l.entity_type = "location" THEN 0 ELSE id)
           ELSE /\ tablesButLogs' = tablesButLogs
                /\ systemLogs' = systemLogs
      ]_vars

\* An admin operation succeeded although its log insert failed: the user is
\* deleted, the answer is 200 and no row was ever added to system_logs.
C18_DeletedWithoutLog ==
    /\ resp.op = "deleteUser"
    /\ resp.status = 200
    /\ \A u \in users : u.id # 4
    /\ systemLogs = EarlierLogs
    /\ autoInc.systemLogs = MaxLogs


\* The tryouts held at a location, its templates apart.
HeldAt(location) ==
    { t \in tryouts : t.location = location /\ t.name # "Location Template" }

TemplatesAt(location) ==
    { t \in tryouts : t.location = location /\ t.name = "Location Template" }

\* C19: deleteTryoutLocation by an admin for a location at which a tryout
\* other than a "Location Template" is held answers 400 with the number of
\* those tryouts, and leaves tryouts and system_logs as they were; for a
\* location with no such tryout it answers 200 and removes exactly the
\* location's "Location Template" rows.
C19_LocationInUseIsKept ==
    [][ \/ resp'.op # "deleteTryoutLocation"
        \/ \A h \in Callers, l \in LocationParams :
              \/ ~SignedAs(h, "admin")
              \/ IF HeldAt(l) # {}
                 THEN /\ resp'.status = 400
                      /\ resp'.count = Cardinality(HeldAt(l))
                      /\ tryouts' = tryouts
                      /\ systemLogs' = systemLogs
                 ELSE /\ resp'.status = 200
                      /\ tryouts' = tryouts \ TemplatesAt(l)
              \/ ~deleteTryoutLocation(h, l) ]_vars

\* The deletion of a location in use was refused while its template exists.
C19_DeletionBlocked ==
    /\ resp.op = "deleteTryoutLocation"
    /\ resp.status = 400
    /\ \E t \in tryouts : t.name = "Location Template" /\ HeldAt(t.location) # {}

(***************************************************************************)
(* Properties of the notification inbox.                                   *)
(***************************************************************************)
SignedIn(h) == h.kind = "signed"

\* The notification with its flag set to read.
Read(n) == [n EXCEPT !.is_read = TRUE]

\* C20: in every step each existing notification is kept as it is, is kept
\* with its is_read flag turned from unread to read, or is gone; its id,
\* owner and message never change. markAsRead and deleteNotification by
\* a signed-in caller for an id that is not a notification of the caller
\* answer 404 and change nothing, and for a notification of the caller mark
\* or delete exactly that one; markAllAsRead marks exactly the caller's
\* notifications and touches no other.
C20_NotificationsChangeOnlyByOwner ==
    /\ [][ \A n \in notifications :
              \/ n \in notifications'
              \/ ~n.is_read /\ Read(n) \in notifications'
              \/ \A m \in notifications' : m.id # n.id ]_vars
    /\ [][ \/ resp'.op \notin {"markAsRead", "deleteNotification"}
           \/ \A h \in Callers, id \in NotificationIdInputs :
                 \/ ~SignedIn(h)
                 \/ IF \E n \in notifications : n.id = id /\ n.user_id = h.payload.id
                    THEN /\ resp'.status = 200
                         /\ notifications' =
                               IF resp'.op = "markAsRead"
                               THEN { IF n.id = id THEN Read(n) ELSE n : n \in notifications }
                               ELSE { n \in notifications : n.id # id }
                    ELSE /\ resp'.status = 404
                         /\ notifications' = notifications
                 \/ ~(markAsRead(h, id) \/ deleteNotification(h, id)) ]_vars
    /\ [][ \/ resp'.op # "markAllAsRead"
           \/ \A h \in Callers :
                 \/ ~SignedIn(h)
                 \/ notifications' =
                       { IF n.user_id = h.payload.id THEN Read(n) ELSE n :
                         n \in notifications }
                 \/ ~markAllAsRead(h) ]_vars

\* markAsRead was answered NotFound for an id that exists: a notification of
\* another user.
C20_ForeignNotificationNotFound ==
    /\ resp.op = "markAsRead"
    /\ resp.status = 404
    /\ { n.id : n \in notifications } = NotificationIdInputs

(***************************************************************************)
(* Properties of roles and statuses.                                       *)
(***************************************************************************)
\* C21: in every state each User row has its role among player, scout and
\* admin and its status among active, inactive and suspended.
C21_RolesAndStatusesInRange ==
    \A u \in users : u.role \in Roles /\ u.status \in UserStatuses

\* C21, the part that holds: every status is one of the three; no step
\* changes the role of an existing user; a step changes the status of an
\* existing user only as a successful updateUserStatus; and an
\* updateUserStatus answered 400 changes nothing.
C21_StatusInRangeAndRoleFixed ==
    /\ [](\A u \in users : u.status \in UserStatuses)
    /\ [][ /\ \A u \in users : \A v \in users' :
                 v.id = u.id =>
                    /\ v.role = u.role
                    /\ v.status # u.status =>
                          resp'.op = "updateUserStatus" /\ resp'.status = 200
           /\ resp'.op = "updateUserStatus" /\ resp'.status = 400 => users' = users
         ]_vars

(***************************************************************************)
(* Properties of tryout deletion.                                          *)
(***************************************************************************)
\* C22: deleteTryout by the scout who owns the tryout answers 200 and
\* removes the tryout together with every invitation of it, and nothing
\* else; by a scout who does not own it, it answers 403 and removes neither;
\* and in every state every invitation names a tryout that exists.
C22_DeleteTryoutTakesItsInvitations ==
    /\ [][ \/ resp'.op # "deleteTryout"
           \/ \A h \in Callers, t \in TryoutParamInputs :
                 \/ ~SignedAs(h, "scout")
                 \/ IF OwnsTryout(h, t)
                    THEN /\ resp'.status = 200
                         /\ tryouts' = { x \in tryouts : x.id # t }
                         /\ invitations' = { i \in invitations : i.tryout_id # t }
                    ELSE /\ resp'.status = 403
                         /\ tryouts' = tryouts
                         /\ invitations' = invitations
                 \/ ~deleteTryout(h, t) ]_vars
    /\ [](\A i \in invitations : \E t \in tryouts : t.id = i.tryout_id)

\* A tryout that had invitations was deleted and none of them is left.
C22_InvitedTryoutDeleted ==
    /\ resp.op = "deleteTryout"
    /\ resp.status = 200
    /\ autoInc.invitations > FirstIds.invitations
    /\ tryouts = {}
    /\ invitations = {}

(***************************************************************************)
(* Properties of location deletion against the tryouts of scouts.          *)
(***************************************************************************)
\* The rows a scout inserted: the scout routes store the caller's id, the
\* admin's sentinel rows carry the admin's.
ScoutCreated(t) == \E u \in users : u.id = t.scout_id /\ u.role = "scout"

\* C28: deleteTryoutLocation removes no tryout row that a scout created
\* (by createTryout, createTryoutWithTime or renamed by updateTryout), and
\* in every state every invitation names a tryout that exists.
C28_LocationDeletionSparesScoutTryouts ==
    /\ [][ resp'.op = "deleteTryoutLocation"
              => \A t \in tryouts \ tryouts' : ~ScoutCreated(t) ]_vars
    /\ [](\A i \in invitations : \E t \in tryouts : t.id = i.tryout_id)

\* What holds: the deletion removes only rows named as the sentinel at the
\* given location, and leaves no invitation behind without its tryout.
C28_LocationDeletionTakesRowsByName ==
    /\ [][ resp'.op = "deleteTryoutLocation"
              => /\ \A t \in tryouts \ tryouts' : t.name = LocationTemplate
                 /\ tryouts' \subseteq tryouts
                 /\ invitations' = invitations ]_vars
    /\ [](\A i \in invitations : \E t \in tryouts : t.id = i.tryout_id)

(***************************************************************************)
(* Properties of admin mutations that name no row.                         *)
(***************************************************************************)
\* The answer the claim asks of a mutation whose target does not exist.
NotFoundAndUntouched ==
    /\ resp'.status = 404
    /\ unchangedDb

\* C29: deleteUser, updateUserStatus (with a valid status), resetUserPassword,
\* updateVideoStatus and the admin's deleteVideo, called by an admin with an
\* id that no row has, answer 404, change no table and append no log row.
C29_MissingTargetIsNotFound ==
    [][ \/ resp'.op \notin {"deleteUser", "updateUserStatus", "resetUserPassword",
                            "adminDeleteVideo", "updateVideoStatus"}
        \/ \A h \in Callers :
              \/ ~SignedAs(h, "admin")
              \/ /\ \A u \in AdminUserIdInputs :
                       \/ userExists(u)
                       \/ /\ deleteUser(h, u) => NotFoundAndUntouched
                          /\ resetUserPassword(h, u) => NotFoundAndUntouched
                          /\ \A s \in UserStatusInputs \cap userStatuses :
                                updateUserStatus(h, u, s) => NotFoundAndUntouched
                 /\ \A v \in AdminVideoIdInputs :
                       \/ videoExists(v) # {}
                       \/ /\ adminDeleteVideo(h, v) => NotFoundAndUntouched
                          /\ \A s \in VideoStatusInputs \cap videoStatuses :
                                updateVideoStatus(h, v, s) => NotFoundAndUntouched ]_vars

\* What holds: the admin's deleteVideo looks the video up first and answers
\* 404 with no change and no log row when there is none.
C29_MissingVideoDeletionIsNotFound ==
    [][ \/ resp'.op # "adminDeleteVideo"
        \/ \A h \in Callers, v \in AdminVideoIdInputs :
              \/ ~SignedAs(h, "admin")
              \/ videoExists(v) # {}
              \/ adminDeleteVideo(h, v) => NotFoundAndUntouched ]_vars

(***************************************************************************)
(* Properties of requests by accounts that are no longer active.           *)
(***************************************************************************)
\* The account the token names exists and its status is active.
ActiveAccount(h) ==
    \E u \in users : u.id = h.payload.id /\ u.status = "active"

\* C26: a like or unlike request whose token names an account that is not
\* active now (set inactive or suspended, or deleted, after the token was
\* issued) is rejected with 401 or 403 and changes nothing.
C26_NonActiveAccountsAreRejected ==
    [][ \/ resp'.op \notin {"likeVideo", "unlikeVideo"}
        \/ \A h \in Callers :
              \/ h.kind # "signed"
              \/ ActiveAccount(h)
              \/ (likeVideo(h, 1) \/ unlikeVideo(h, 1))
                    => resp'.status \in {401, 403} /\ unchangedDb ]_vars

(***************************************************************************)
(* Properties of the profile image replacement.                            *)
(***************************************************************************)
ProfileOps == {"updateProfile", "updateScoutProfile"}

\* The profile row of the object's owner names the object and its URL.
ReferencedByProfile(o, players, scouts) ==
    LET rows == IF o.folder = "profiles" THEN players ELSE scouts
    IN  \E p \in rows :
           /\ p.user_id = o.player
           /\ p.public_id = o
           /\ p.profile_image = <<"https://res.cloudinary.com/", o>>

C27_FailedUpdateChangesNothing ==
    [][ (resp'.op \in ProfileOps /\ resp'.status >= 400) =>
          /\ users' = users
          /\ playerProfiles' = playerProfiles
          /\ scoutProfiles' = scoutProfiles
          /\ cloud'.objects = cloud.objects ]_vars

\* What holds: a failed update leaves the profile rows and the remote objects
\* as they were.
C27_FailedUpdateKeepsProfileAndImage ==
    [][ (resp'.op \in ProfileOps /\ resp'.status >= 400) =>
          /\ playerProfiles' = playerProfiles
          /\ scoutProfiles' = scoutProfiles
          /\ cloud'.objects = cloud.objects ]_vars

(***************************************************************************)
(* Properties of requests that overlap.                                    *)
(***************************************************************************)
\* The rows of the request's table that carry the key the request inserts.
KeyRows(r, invs, lks, shs) ==
    CASE r.op = "invitePlayer" ->
            { i \in invs : i.tryout_id = r.args[1] /\ i.player_id = r.args[2] }
      [] r.op = "likeVideo" ->
            { l \in lks : l.user_id = r.h.payload.id /\ l.video_id = r.args[1] }
      [] r.op = "addToShortlist" ->
            { s \in shs : s.scout_id = r.h.payload.id /\ s.player_id = r.args[1] }

\* C23: a request of invitePlayer, likeVideo or addToShortlist that passed
\* its duplicate test inserts its row and answers 201 even when another
\* request has inserted the same key in between; it never answers as a
\* duplicate, and fails only when the store refuses the row (then with 500
\* and no row added). So two overlapping requests for one key can both
\* insert and both report a fresh success.
C23_CheckThenInsertIsNotAtomic ==
    [][ \A c \in Clients :
          (inflight[c].pc = "read" /\ inflight'[c].pc = "done") =>
             LET r == inflight[c]
                 before == KeyRows(r, invitations, likes, shortlists)
                 after == KeyRows(r, invitations', likes', shortlists')
             IN  /\ inflight'[c].status \in {201, 500}
                 /\ inflight'[c].status = 201 =>
                       /\ before \subseteq after
                       /\ Cardinality(after) = Cardinality(before) + 1
                 /\ inflight'[c].status = 500 =>
                       /\ before # {}
                       /\ after = before ]_vars

\* Both clients' last requests were invitations of the same player to the
\* same tryout and both were answered 201; the invitation, the like and the
\* shortlist entry are each stored twice.
C23_TwoRowsForOneKey ==
    /\ \A c \in Clients :
          /\ inflight[c].pc = "done"
          /\ inflight[c].op = "invitePlayer"
          /\ inflight[c].status = 201
    /\ Cardinality(existingInvitations(1, 3)) = 2
    /\ Cardinality(existingLike(3, 1)) = 2
    /\ Cardinality(existingShortlist(1, 3)) = 2

\* An answered request of client c: op on invitation id with status 200.
Succeeded(c, op, id) ==
    /\ inflight[c].pc = "done"
    /\ inflight[c].op = op
    /\ inflight[c].status = 200
    /\ inflight[c].args[1] = id

\* C25: cancelInvitation deletes an invitation only while its status is
\* pending, and the player's accept or decline and the scout's cancel of
\* the same invitation are never both answered with success.
C25_CancelAndAnswerNeverBothSucceed ==
    /\ [][ \A c \in Clients :
             (inflight[c].pc = "read" /\ inflight[c].op = "cancelInvitation"
                /\ inflight'[c].pc = "done")
               => \A i \in invitations \ invitations' : i.status = "pending" ]_vars
    /\ [](\A c, d \in Clients, id \in {1} :
             ~(/\ Succeeded(c, "cancelInvitation", id)
               /\ Succeeded(d, "updateInvitationStatus", id)))

(***************************************************************************)
(* Properties of like and comment notifications.                           *)
(***************************************************************************)
\* The owners of the videos of the rows, the rows' own authors left out.
OtherOwners(rows) ==
    { v.player_id : v \in { v \in videos : \E r \in rows :
                              r.video_id = v.id /\ r.user_id # v.player_id } }

\* The request stored a like or comment of a user on another user's video.
ReactedToAnother(rows) == OtherOwners(rows) # {}

====
